---- MODULE Spec2Model ----
(***************************************************************************)
(* Model of the mosn.io/pkg variable engine: the process-wide registry     *)
(* (variable/factory.go), the descriptors (NewVariable, getterImpl,        *)
(* setterImpl), the per-context slot arrays and the Get/Set engine         *)
(* (variable/api.go); of utils.SyncList (utils/sync_list.go); and of the    *)
(* buffer chain (buffer/bufferchain.go).                                   *)
(*                                                                         *)
(* Go indices are 0-based and TLA+ sequences 1-based: the slot of index i  *)
(* is element i + 1 of a slot array, and the descriptor of index i is      *)
(* element i + 1 of indexedVariables.                                      *)
(***************************************************************************)
EXTENDS Integers, Sequences, FiniteSets, TLC

\* ------------------------------------------------------------------ bounds
\* Contexts that may be created besides context.Background().
MaxCtx == 3
\* Cap on len(indexedVariables): registrations that would append beyond it
\* are not taken.
MaxIndex == 2
\* Operations performed in one run.
MaxSteps == 5
\* Elements pushed to the SyncList in one run.
MaxElems == 4
\* The capacity a buffer chain is made with.
Capacity == 2
\* Write calls on the buffer chain in one run.
MaxWrites == 4

\* ------------------------------------------------------------------ values
\* interface{} values: Nil is the nil interface, the others are payloads.
Nil == "nil"
Values == {"p", "q"}

\* An error value: its kind stands for the message prefix, name for the name
\* appended to it. NoErr is a nil error; Panic is a Go runtime panic (index
\* out of range), which unwinds before the operation writes anything.
Err(k, n) == [kind |-> k, name |-> n]
NoErr == Err("nil", "")
Panic == Err("panic", "")

\* ------------------------------------------------------------- descriptors
\* The descriptors the program builds with NewVariable / NewStringVariable.
\* getter: "none" (nil GetterFunc), "env" (a closure returning the captured
\* variable `value`), "ambient" (reads ctx.Value("test")).
\* setter: "none" (nil SetterFunc: the variable is not indexed), "default"
\* (DefaultSetter), "ext" (a closure storing into the captured variable and
\* leaving the slot alone), "reget" (a closure that calls Get on its own name
\* and drops what it read).
\* Further getters: "needs" (fails unless ctx.Value("test") is a string, which
\* it returns), "echo" (returns its data argument). Further setters: "fail"
\* (returns an error and leaves the slot alone), "string" (the variable is
\* built by NewStringVariable with DefaultStringSetter).
NewVariable(name, getter, setter) ==
    [name |-> name, getter |-> getter, setter |-> setter]

Descs ==
    << NewVariable("a", "none", "default"),
       NewVariable("a", "env", "default"),
       NewVariable("a", "env", "ext"),
       NewVariable("b", "ambient", "none"),
       NewVariable("b", "env", "reget"),
       NewVariable("p_a", "env", "none"),
       NewVariable("a", "env", "fail"),
       NewVariable("b", "needs", "string"),
       NewVariable("a", "echo", "none"),
       NewVariable("a", "echo", "default"),
       NewVariable("b", "ambient", "default") >>

DescIds == 1..Len(Descs)
Names == {Descs[d].name : d \in DescIds}

\* The descriptors and the names the slot-engine runs work with.
Engine == 1..5
EngineNames == {Descs[d].name : d \in Engine}

\* variable.(Indexer): NewVariable returns an *IndexedVariable exactly when
\* the setter function is not nil.
Indexer(d) == Descs[d].setter # "none"

VARIABLES
    variables,         \* map[string]Variable: name -> descriptor id, 0 = absent
    indexedVariables,  \* []Variable: sequence of descriptor ids
    index,             \* IndexedVariable.index of every descriptor (zero value 0)
    ctxs,              \* the contexts created so far (parent, slot array,
                       \* payload, maker); context 0 is Background
    arrays,            \* arrays[c]: the []IndexedValue allocated for context c
    value,             \* the variable captured by the "env"/"ext" closures
    ret,               \* what the last operation returned to its caller
    hist,              \* per slot, what the calls on it have been (history)
    steps,             \* operations performed so far
    prefixVariables,   \* map[string]Variable: prefix -> descriptor id, 0 = absent
    protocolVar,       \* map[string]string: protocol+resource -> variable name
    GetProtocol,       \* the protocol resolver: Nil while unset
    list,              \* SyncList.list: the elements in the list, front first
    curr,              \* SyncList.curr: the cursor element, 0 for nil
    visiting,          \* a VisitSafe call is in its loop (visitMux is held)
    currLocal,         \* the loop's local curr: the element f is about to
                       \* be called on, 0 when there is none
    seen,              \* the elements f was called on by that call, in order
    elems,             \* elements created so far by PushBack
    bufferchain,       \* ioBufferchain.bufferchain: the chunks in the channel
    closed,            \* the channels of the chain that are closed
    mutex,             \* ioBufferchain.mutex: its holder, 0 when free
    wpc,               \* where each goroutine calling Write is in it
    wres,              \* what each one's last Write returned
    cpc,               \* where each goroutine calling CloseWithError is
    cres,              \* how each one's last CloseWithError ended
    got,               \* what the last Bytes returned
    stats,             \* Write calls started, succeeded, and chunks consumed
    mux,               \* the registry lock: the goroutine holding it, 0 when free
    rpc,               \* where each goroutine calling a registry operation is
    rres               \* the error each one's last registry operation returned

\* The tables of the name resolution besides the exact-match map.
tables == <<prefixVariables, protocolVar, GetProtocol>>

\* The state of the SyncList.
lists == <<list, curr, visiting, currLocal, seen, elems>>

\* The state of the buffer chain and of the goroutines using it.
chains == <<bufferchain, closed, mutex, wpc, wres, cpc, cres, got, stats>>

\* The registry lock and the goroutines inside a registry operation.
locks == <<mux, rpc, rres>>

vars == <<variables, indexedVariables, index, ctxs, arrays, value, ret, hist, steps,
          prefixVariables, protocolVar, GetProtocol, lists, chains, locks>>

\* ---------------------------------------------------------------- contexts
CtxIds == 0..Len(ctxs)

\* A nil context.Context handed to the package.
NilCtx == -1

\* ctx.Value(KeyVariables): the id of the slot array the context resolves to,
\* 0 when it carries none.
KeyVariables(c) == IF c <= 0 THEN 0 ELSE ctxs[c].vars

\* ctx.Value("test"): the ambient payload the context resolves to.
Payload(c) == IF c <= 0 THEN Nil ELSE ctxs[c].test

\* value.(string): the dynamic type check of the string-typed paths.
IsString(x) == x # Nil

IndexedValue(data, valid) == [data |-> data, Valid |-> valid]
ZeroValue == IndexedValue(Nil, FALSE)

\* What an operation hands back: the slot arrays and captured variable as it
\* leaves them, the returned value and error, how many times a getter
\* function ran, and how a Get issued from inside a setter ended ("none" when
\* there was no such Get, else "hit", "miss" or "err"). cell is the slot the
\* operation went to, <<array, index>>, NoCell when it went to none; icell is
\* the slot the Get issued from inside a setter went to; setter is the kind
\* of the setter function that ran, "none" when none did.
NoCell == <<0, 0>>
Outcome(arrs, val, res, err, calls, inner) ==
    [arrays |-> arrs, value |-> val, res |-> res, err |-> err,
     calls |-> calls, inner |-> inner, cell |-> NoCell, icell |-> NoCell,
     setter |-> "none"]
At(o, a, idx) == [o EXCEPT !.cell = <<a, idx>>]
Ran(o, kind) == [o EXCEPT !.setter = kind]

Ret(op, o) ==
    [op |-> op, res |-> o.res, err |-> o.err, calls |-> o.calls, inner |-> o.inner,
     old |-> 0]

\* The history of a slot: set is the value of the latest Set on the slot when
\* that Set succeeded through DefaultSetter, else "none"; get is the number of
\* getter calls the latest successful Get on the slot made, -1 when there was
\* none since the slot was created or last Set; fresh holds while the slot,
\* created invalid, has seen neither a Set nor a successful Get.
History(set, get, fresh) == [set |-> set, get |-> get, fresh |-> fresh]

\* Every operation of the variable package counts against the run's budget
\* and leaves the SyncList and the buffer chain alone.
Step == steps < MaxSteps /\ steps' = steps + 1 /\ UNCHANGED <<lists, chains, locks>>

\* ------------------------------------------------------------ registry lock
\* The goroutines that call the registry operations concurrently.
Registrars == {1, 2}

\* A goroutine outside every registry operation.
Outside == [pc |-> "idle", op |-> "none", d |-> 0, m |-> "", old |-> 0, plan |-> <<>>]

\* The lock free, no registry operation under way.
NoRegistrar ==
    /\ mux = 0
    /\ rpc = [g \in Registrars |-> Outside]
    /\ rres = [g \in Registrars |-> Err("none", "")]

\* ---------------------------------------------------------------- SyncList
\* NewSyncList: an empty list, no cursor, no visit under way.
NewSyncList ==
    /\ list = <<>>
    /\ curr = 0
    /\ visiting = FALSE
    /\ currLocal = 0
    /\ seen = <<>>
    /\ elems = 0

\* The elements of a sequence.
Range(q) == {q[i] : i \in 1..Len(q)}

\* The place of element e in the list, 0 when it is not in it.
Place(e) == IF e \in Range(list) THEN CHOOSE i \in 1..Len(list) : list[i] = e ELSE 0

\* list.Front, e.Next and e.Prev of container/list: nil (0) at the ends and
\* for an element that is in no list.
Front == IF list = <<>> THEN 0 ELSE list[1]
ElemNext(e) ==
    IF Place(e) = 0 \/ Place(e) = Len(list) THEN 0 ELSE list[Place(e) + 1]
ElemPrev(e) == IF Place(e) <= 1 THEN 0 ELSE list[Place(e) - 1]

\* The list without element e (list.Remove leaves a list alone that does
\* not hold the element).
Without(e) == SelectSeq(list, LAMBDA x : x # e)

\* What Remove leaves: the list and the cursor.
Cursor(l, c) == [list |-> l, curr |-> c]

\* The slip of leaving the cursor on the element being removed.
RemoveKeepsCursor(e) == Cursor(Without(e), curr)

\* Remove: the cursor steps back to the previous element when the element
\* removed is the one it is on, then the element leaves the list.
Remove(e) == Cursor(Without(e), IF e = curr THEN ElemPrev(curr) ELSE curr)

\* PushBack: a new element at the back of the list.
PushBackAct ==
    /\ elems < MaxElems
    /\ elems' = elems + 1
    /\ list' = Append(list, elems + 1)
    /\ UNCHANGED <<curr, visiting, currLocal, seen, chains>>

\* Remove(e), called from inside f or from another goroutine, of an element
\* PushBack returned.
RemoveAct(e) ==
    /\ list' = Remove(e).list
    /\ curr' = Remove(e).curr
    /\ UNCHANGED <<visiting, currLocal, seen, elems, chains>>

\* VisitSafe up to its loop: takes visitMux and clears the cursor.
VisitSafeAct ==
    /\ ~visiting
    /\ visiting' = TRUE
    /\ curr' = 0
    /\ seen' = <<>>
    /\ UNCHANGED <<list, currLocal, elems, chains>>

\* The element an iteration of the loop moves the cursor to.
Advance == IF curr = 0 THEN Front ELSE ElemNext(curr)

\* The first half of an iteration of the loop of VisitSafe: under mux the
\* cursor moves and is copied to the local curr; at nil the loop breaks and
\* the call returns.
VisitAct ==
    /\ visiting
    /\ currLocal = 0
    /\ curr' = Advance
    /\ currLocal' = Advance
    /\ visiting' = (Advance # 0)
    /\ UNCHANGED <<list, seen, elems, chains>>

\* The second half: f is called on the local curr, with visitMux held and
\* mux free.
CallAct ==
    /\ currLocal # 0
    /\ seen' = Append(seen, currLocal)
    /\ currLocal' = 0
    /\ UNCHANGED <<list, curr, visiting, elems, chains>>

\* ------------------------------------------------------------ buffer chain
\* The goroutines that call Write and the ones that call CloseWithError.
Writers == {1, 2}
Closers == {3, 4}

\* What a Write returns: the count of bytes taken (1 for a chunk) and the
\* error, or a panic.
Wrote(n, e) == [n |-> n, err |-> e]

\* NewIoBufferChain(Capacity): an empty data channel of that capacity and an
\* error channel, both open, the mutex free; every goroutine outside the
\* chain's methods.
NewIoBufferChain ==
    /\ bufferchain = <<>>
    /\ closed = {}
    /\ mutex = 0
    /\ wpc = [w \in Writers |-> "idle"]
    /\ wres = [w \in Writers |-> Wrote(0, "none")]
    /\ cpc = [k \in Closers |-> "idle"]
    /\ cres = [k \in Closers |-> "none"]
    /\ got = Nil
    /\ stats = [started |-> 0, written |-> 0, consumed |-> 0]

\* The outcome of a send that does not wait: whether the chunk went into
\* the channel, and the channel after it.
Sent(ok, chain) == [ok |-> ok, chain |-> chain]

\* The slip of a channel without a bound.
SendUnbounded(chain, bytes) == Sent(TRUE, Append(chain, bytes))

\* case bc.bufferchain <- bytes of a select with a default, on an open
\* channel: the chunk goes in while the channel holds fewer chunks than its
\* capacity.
Send(chain, bytes) ==
    IF Len(chain) < Capacity THEN Sent(TRUE, Append(chain, bytes))
    ELSE Sent(FALSE, chain)

\* Write up to the lock: a closed error channel ends the call with io.EOF,
\* else the goroutine goes for the mutex. The chunk of writer w is w.
WriteAct(w) ==
    /\ wpc[w] = "idle"
    /\ stats.started < MaxWrites
    /\ stats' = [stats EXCEPT !.started = @ + 1]
    /\ IF "errChan" \in closed
       THEN wres' = [wres EXCEPT ![w] = Wrote(0, "EOF")] /\ UNCHANGED wpc
       ELSE wpc' = [wpc EXCEPT ![w] = "lock"] /\ wres' = [wres EXCEPT ![w] = Wrote(0, "none")]
    /\ UNCHANGED <<bufferchain, closed, mutex, cpc, cres, got>>

\* Write from the lock on: with the mutex, the send that does not wait. A
\* send on the closed data channel panics (the deferred Unlock runs); a
\* chunk that goes in ends the call; with the channel full the goroutine
\* keeps the mutex and waits in the last select.
WriteLockAct(w) ==
    /\ wpc[w] = "lock"
    /\ mutex = 0
    /\ IF "bufferchain" \in closed
       THEN /\ wres' = [wres EXCEPT ![w] = Wrote(0, "panic")]
            /\ wpc' = [wpc EXCEPT ![w] = "idle"]
            /\ UNCHANGED <<bufferchain, mutex, stats>>
       ELSE IF Send(bufferchain, w).ok
       THEN /\ bufferchain' = Send(bufferchain, w).chain
            /\ wres' = [wres EXCEPT ![w] = Wrote(1, "nil")]
            /\ wpc' = [wpc EXCEPT ![w] = "idle"]
            /\ stats' = [stats EXCEPT !.written = @ + 1]
            /\ UNCHANGED mutex
       ELSE /\ wpc' = [wpc EXCEPT ![w] = "wait"]
            /\ mutex' = w
            /\ UNCHANGED <<bufferchain, wres, stats>>
    /\ UNCHANGED <<closed, cpc, cres, got>>

\* The last select of Write, case <-ticker.C: after the second the call
\* ends with ErrWriteCovered and the chunk is dropped.
WriteTickAct(w) ==
    /\ wpc[w] = "wait"
    /\ wres' = [wres EXCEPT ![w] = Wrote(0, "ErrWriteCovered")]
    /\ wpc' = [wpc EXCEPT ![w] = "idle"]
    /\ mutex' = 0
    /\ UNCHANGED <<bufferchain, closed, cpc, cres, got, stats>>

\* The last select of Write, case <-bc.errChan: the error channel was
\* closed, the call ends with io.EOF.
WriteEOFAct(w) ==
    /\ wpc[w] = "wait"
    /\ "errChan" \in closed
    /\ wres' = [wres EXCEPT ![w] = Wrote(0, "EOF")]
    /\ wpc' = [wpc EXCEPT ![w] = "idle"]
    /\ mutex' = 0
    /\ UNCHANGED <<bufferchain, closed, cpc, cres, got, stats>>

\* The goroutine waiting in the last select of Write, if any (it holds the
\* mutex, so there is at most one).
Waiting == {w \in Writers : wpc[w] = "wait"}

\* Bytes: receives the first chunk; the receive hands the freed place to
\* the sender waiting in the last select of Write (case bc.bufferchain <-
\* bytes), whose call ends well. On the closed and empty channel it returns
\* nil; on the open and empty one it blocks.
BytesAct ==
    IF bufferchain # <<>>
    THEN /\ got' = Head(bufferchain)
         /\ bufferchain' = Tail(bufferchain) \o
                IF Waiting = {} THEN <<>> ELSE <<CHOOSE w \in Waiting : TRUE>>
         /\ wres' = [w \in Writers |-> IF w \in Waiting THEN Wrote(1, "nil") ELSE wres[w]]
         /\ wpc' = [w \in Writers |-> IF w \in Waiting THEN "idle" ELSE wpc[w]]
         /\ mutex' = IF Waiting = {} THEN mutex ELSE 0
         /\ stats' = [stats EXCEPT !.consumed = @ + 1,
                                   !.written = IF Waiting = {} THEN @ ELSE @ + 1]
         /\ UNCHANGED <<closed, cpc, cres>>
    ELSE /\ "bufferchain" \in closed
         /\ got' = Nil
         /\ UNCHANGED <<bufferchain, closed, mutex, wpc, wres, cpc, cres, stats>>

\* CloseWithError, the select: with the error channel closed the call
\* returns, else it goes on to close it.
CloseWithErrorAct(k) ==
    /\ cpc[k] = "idle"
    /\ IF "errChan" \in closed
       THEN cres' = [cres EXCEPT ![k] = "returned"] /\ UNCHANGED cpc
       ELSE cpc' = [cpc EXCEPT ![k] = "close"] /\ cres' = [cres EXCEPT ![k] = "none"]
    /\ UNCHANGED <<bufferchain, closed, mutex, wpc, wres, got, stats>>

\* CloseWithError, close(bc.errChan): closing a closed channel panics.
CloseErrChanAct(k) ==
    /\ cpc[k] = "close"
    /\ IF "errChan" \in closed
       THEN /\ cres' = [cres EXCEPT ![k] = "panic"]
            /\ cpc' = [cpc EXCEPT ![k] = "idle"]
            /\ UNCHANGED closed
       ELSE /\ closed' = closed \cup {"errChan"}
            /\ cpc' = [cpc EXCEPT ![k] = "lock"]
            /\ UNCHANGED cres
    /\ UNCHANGED <<bufferchain, mutex, wpc, wres, got, stats>>

\* CloseWithError, the rest: with the mutex, close(bc.bufferchain); the
\* deferred Unlock frees the mutex.
CloseLockAct(k) ==
    /\ cpc[k] = "lock"
    /\ mutex = 0
    /\ cpc' = [cpc EXCEPT ![k] = "idle"]
    /\ IF "bufferchain" \in closed
       THEN cres' = [cres EXCEPT ![k] = "panic"] /\ UNCHANGED closed
       ELSE cres' = [cres EXCEPT ![k] = "returned"] /\ closed' = closed \cup {"bufferchain"}
    /\ UNCHANGED <<bufferchain, mutex, wpc, wres, got, stats>>

\* ------------------------------------------------------------------ tables
\* The prefixes the program registers, the resource kinds and the suffix it
\* asks for, the variable names it maps resources to, and the names it asks
\* for besides those of its descriptors.
Prefixes == {"a", "p_a"}
Kinds == {"k"}
Suffixes == {"x"}
Backings == {"a"}
Asked == {"a", "ax", "k", "p_a", "zz"}

\* A map entry, 0 when the key is absent.
Entry(map, key) == IF key \in DOMAIN map THEN map[key] ELSE 0

\* convert: the key of a (protocol, resource) pair in protocolVar.
convert(p, name) == p \o name

\* strings.HasPrefix
HasPrefix(s, prefix) ==
    Len(prefix) <= Len(s) /\ SubSeq(s, 1, Len(prefix)) = prefix

\* ---------------------------------------------------------------- registry
\* What a registry operation leaves: the three package variables, the error
\* it returns and, for the record, the descriptor it replaced (0 for none).
Registry(vs, ivs, idx, err, old) ==
    [variables |-> vs, indexedVariables |-> ivs, index |-> idx, err |-> err,
     old |-> old]

\* The slip of installing the variable whatever the name map holds.
RegisterOverwrite(d) ==
    LET name == Descs[d].name IN
    IF Indexer(d)
    THEN Registry([variables EXCEPT ![name] = d],
                  Append(indexedVariables, d),
                  [index EXCEPT ![d] = Len(indexedVariables)], NoErr, 0)
    ELSE Registry([variables EXCEPT ![name] = d], indexedVariables, index, NoErr, 0)

\* The slip of reporting a rejected registration as a success.
RegisterSilent(d) ==
    LET name == Descs[d].name IN
    IF variables[name] # 0
    THEN Registry(variables, indexedVariables, index, NoErr, 0)
    ELSE IF Indexer(d)
    THEN Registry([variables EXCEPT ![name] = d],
                  Append(indexedVariables, d),
                  [index EXCEPT ![d] = Len(indexedVariables)], NoErr, 0)
    ELSE Registry([variables EXCEPT ![name] = d], indexedVariables, index, NoErr, 0)

\* The slip of appending an Indexer to the table without stamping its index.
RegisterUnstamped(d) ==
    LET name == Descs[d].name IN
    IF variables[name] # 0
    THEN Registry(variables, indexedVariables, index,
                  Err("VariableDuplicated", name), 0)
    ELSE IF Indexer(d)
    THEN Registry([variables EXCEPT ![name] = d],
                  Append(indexedVariables, d), index, NoErr, 0)
    ELSE Registry([variables EXCEPT ![name] = d], indexedVariables, index, NoErr, 0)

\* Register: a name already present is rejected with errVariableDuplicated
\* before anything is written; else the variable enters the name map and, if
\* it is an Indexer, takes the next index and is appended to the table.
Register(d) ==
    LET name == Descs[d].name IN
    IF variables[name] # 0
    THEN Registry(variables, indexedVariables, index,
                  Err("VariableDuplicated", name), 0)
    ELSE IF Indexer(d)
    THEN Registry([variables EXCEPT ![name] = d],
                  Append(indexedVariables, d),
                  [index EXCEPT ![d] = Len(indexedVariables)], NoErr, 0)
    ELSE Registry([variables EXCEPT ![name] = d], indexedVariables, index, NoErr, 0)

\* The slip of handing the old index to the new variable without writing
\* the new variable into the index table.
OverrideStampsOnly(d) ==
    LET name == Descs[d].name
        oldVar == variables[name]
    IN
    IF oldVar = 0
    THEN Registry(variables, indexedVariables, index,
                  Err("VariableNotRegister", name), 0)
    ELSE IF Indexer(d) /\ Indexer(oldVar)
    THEN Registry([variables EXCEPT ![name] = d], indexedVariables,
                  [index EXCEPT ![d] = index[oldVar]], NoErr, oldVar)
    ELSE IF Indexer(d)
    THEN Registry([variables EXCEPT ![name] = d],
                  Append(indexedVariables, d),
                  [index EXCEPT ![d] = Len(indexedVariables)], NoErr, oldVar)
    ELSE Registry([variables EXCEPT ![name] = d], indexedVariables, index,
                  NoErr, oldVar)

\* The slip of appending no index when an Indexer replaces a variable that
\* has none.
OverrideUnindexed(d) ==
    LET name == Descs[d].name
        oldVar == variables[name]
    IN
    IF oldVar = 0
    THEN Registry(variables, indexedVariables, index,
                  Err("VariableNotRegister", name), 0)
    ELSE IF Indexer(d) /\ Indexer(oldVar)
    THEN Registry([variables EXCEPT ![name] = d],
                  [indexedVariables EXCEPT ![index[oldVar] + 1] = d],
                  [index EXCEPT ![d] = index[oldVar]], NoErr, oldVar)
    ELSE Registry([variables EXCEPT ![name] = d], indexedVariables, index,
                  NoErr, oldVar)

\* The slip of putting a variable without a setter in the table place of
\* the Indexer it replaces.
OverrideTakesSlot(d) ==
    LET name == Descs[d].name
        oldVar == variables[name]
    IN
    IF oldVar = 0
    THEN Registry(variables, indexedVariables, index,
                  Err("VariableNotRegister", name), 0)
    ELSE IF Indexer(oldVar)
    THEN Registry([variables EXCEPT ![name] = d],
                  [indexedVariables EXCEPT ![index[oldVar] + 1] = d],
                  [index EXCEPT ![d] = index[oldVar]], NoErr, oldVar)
    ELSE IF Indexer(d)
    THEN Registry([variables EXCEPT ![name] = d],
                  Append(indexedVariables, d),
                  [index EXCEPT ![d] = Len(indexedVariables)], NoErr, oldVar)
    ELSE Registry([variables EXCEPT ![name] = d], indexedVariables, index,
                  NoErr, oldVar)

\* The slip of giving an overriding Indexer the next index whatever it
\* replaces.
OverrideFreshIndex(d) ==
    LET name == Descs[d].name
        oldVar == variables[name]
    IN
    IF oldVar = 0
    THEN Registry(variables, indexedVariables, index,
                  Err("VariableNotRegister", name), 0)
    ELSE IF Indexer(d)
    THEN Registry([variables EXCEPT ![name] = d],
                  Append(indexedVariables, d),
                  [index EXCEPT ![d] = Len(indexedVariables)], NoErr, oldVar)
    ELSE Registry([variables EXCEPT ![name] = d], indexedVariables, index,
                  NoErr, oldVar)

\* Override: a name not present is rejected with errVariableNotRegister; else
\* the entry is replaced, and an Indexer reuses the index of the Indexer it
\* replaces or, replacing another kind of variable, takes the next index.
Override(d) ==
    LET name == Descs[d].name
        oldVar == variables[name]
    IN
    IF oldVar = 0
    THEN Registry(variables, indexedVariables, index,
                  Err("VariableNotRegister", name), 0)
    ELSE IF Indexer(d) /\ Indexer(oldVar)
    THEN Registry([variables EXCEPT ![name] = d],
                  [indexedVariables EXCEPT ![index[oldVar] + 1] = d],
                  [index EXCEPT ![d] = index[oldVar]], NoErr, oldVar)
    ELSE IF Indexer(d)
    THEN Registry([variables EXCEPT ![name] = d],
                  Append(indexedVariables, d),
                  [index EXCEPT ![d] = Len(indexedVariables)], NoErr, oldVar)
    ELSE Registry([variables EXCEPT ![name] = d], indexedVariables, index,
                  NoErr, oldVar)

\* A registry operation as a step; it is not taken when it would grow the
\* index table beyond MaxIndex.
Install(op, r) ==
    /\ Len(r.indexedVariables) <= MaxIndex
    /\ variables' = r.variables
    /\ indexedVariables' = r.indexedVariables
    /\ index' = r.index
    /\ ret' = [op |-> op, res |-> Nil, err |-> r.err, calls |-> 0,
               inner |-> "none", old |-> r.old]
    /\ UNCHANGED <<ctxs, arrays, value, hist, tables>>

RegisterAct(d) == Step /\ Install("Register", Register(d))
OverrideAct(d) == Step /\ Install("Override", Override(d))

\* What RegisterPrefix, OverridePrefix and RegisterProtocolResource leave:
\* the map they write and the error they return.
Table(map, err) == [map |-> map, err |-> err]

\* The slip of installing the variable whatever the prefix map holds.
RegisterPrefixOverwrite(prefix, d) ==
    Table([prefixVariables EXCEPT ![prefix] = d],
          IF prefixVariables[prefix] # 0
          THEN Err("PrefixDuplicated", prefix) ELSE NoErr)

\* RegisterPrefix: a prefix already present is rejected; else the variable
\* enters the prefix map. No index is assigned.
RegisterPrefix(prefix, d) ==
    IF prefixVariables[prefix] # 0
    THEN Table(prefixVariables, Err("PrefixDuplicated", prefix))
    ELSE Table([prefixVariables EXCEPT ![prefix] = d], NoErr)

\* The slip of installing the variable of an absent prefix.
OverridePrefixInstalls(prefix, d) ==
    Table([prefixVariables EXCEPT ![prefix] = d],
          IF prefixVariables[prefix] = 0
          THEN Err("PrefixNotRegister", prefix) ELSE NoErr)

\* OverridePrefix: a prefix not present is rejected; else its variable is
\* replaced.
OverridePrefix(prefix, d) ==
    IF prefixVariables[prefix] = 0
    THEN Table(prefixVariables, Err("PrefixNotRegister", prefix))
    ELSE Table([prefixVariables EXCEPT ![prefix] = d], NoErr)

\* Sprintf("%s_%s", protocol, varname): the variable name stored for a
\* resource.
VarName(protocol, varname) == protocol \o "_" \o varname

\* The slip of storing the variable name as it was handed in.
RegisterProtocolResourcePlain(protocol, resource, varname) ==
    IF convert(protocol, resource) \in DOMAIN protocolVar
    THEN Table(protocolVar,
               Err("ProtocolResourceExists", convert(protocol, resource)))
    ELSE Table([k \in DOMAIN protocolVar \cup {convert(protocol, resource)} |->
                    IF k = convert(protocol, resource) THEN varname
                    ELSE protocolVar[k]],
               NoErr)

\* RegisterProtocolResource: a (protocol, resource) key already present is
\* rejected; else it is mapped to the protocol, "_" and the variable name.
RegisterProtocolResource(protocol, resource, varname) ==
    LET pr == convert(protocol, resource) IN
    IF pr \in DOMAIN protocolVar
    THEN Table(protocolVar, Err("ProtocolResourceExists", pr))
    ELSE Table([k \in DOMAIN protocolVar \cup {pr} |->
                    IF k = pr THEN VarName(protocol, varname) ELSE protocolVar[k]],
               NoErr)

\* A call that returns only an error, as the last operation.
Returned(op, err) ==
    [op |-> op, res |-> Nil, err |-> err, calls |-> 0, inner |-> "none", old |-> 0]

RegisterPrefixAct(prefix, d) ==
    /\ Step
    /\ prefixVariables' = RegisterPrefix(prefix, d).map
    /\ ret' = Returned("RegisterPrefix", RegisterPrefix(prefix, d).err)
    /\ UNCHANGED <<variables, indexedVariables, index, ctxs, arrays, value, hist,
                   protocolVar, GetProtocol>>

OverridePrefixAct(prefix, d) ==
    /\ Step
    /\ prefixVariables' = OverridePrefix(prefix, d).map
    /\ ret' = Returned("OverridePrefix", OverridePrefix(prefix, d).err)
    /\ UNCHANGED <<variables, indexedVariables, index, ctxs, arrays, value, hist,
                   protocolVar, GetProtocol>>

RegisterProtocolResourceAct(protocol, resource, varname) ==
    /\ Step
    /\ protocolVar' = RegisterProtocolResource(protocol, resource, varname).map
    /\ ret' = Returned("RegisterProtocolResource",
                       RegisterProtocolResource(protocol, resource, varname).err)
    /\ UNCHANGED <<variables, indexedVariables, index, ctxs, arrays, value, hist,
                   prefixVariables, GetProtocol>>

\* ------------------------------------------------------------- context ops
\* mosnctx.Clone: a new context derived from the parent, carrying the
\* parent's builtin values (the slice header of the slot array included) and
\* resolving every other key through the parent.
Clone(p) ==
    [parent |-> p, vars |-> KeyVariables(p), test |-> Payload(p),
     made |-> "NewVariableContext"]

\* mosnctx.WithValue(ctx, KeyVariables, values) on the context just built.
WithValue(ctx, a) == [ctx EXCEPT !.vars = a]

\* The slot array NewVariableContext builds for a child of p: as long as the
\* index table, the parent's cells copied by value over its head.
\* The slip of leaving out the copy from the parent.
NewValuesNoCopy(p) == [i \in 1..Len(indexedVariables) |-> ZeroValue]

\* The slip of sizing the array as the parent's.
NewValuesParentLength(p) ==
    IF KeyVariables(p) = 0
    THEN [i \in 1..Len(indexedVariables) |-> ZeroValue]
    ELSE arrays[KeyVariables(p)]

NewValues(p) ==
    LET ivalues == IF KeyVariables(p) = 0 THEN <<>> ELSE arrays[KeyVariables(p)] IN
    [i \in 1..Len(indexedVariables) |->
        IF i <= Len(ivalues) THEN ivalues[i] ELSE ZeroValue]

\* The slip of handing the child the parent's slice instead of a copy.
NewVariableContextAliased(p) ==
    LET c == Len(ctxs) + 1 IN
    /\ ctxs' = Append(ctxs, IF KeyVariables(p) = 0 THEN WithValue(Clone(p), c)
                                                   ELSE Clone(p))
    /\ arrays' = Append(arrays, NewValues(p))

\* A carrier is a context of the package's own type (*valueCtx), which keeps
\* the builtin keys in a table of its own; context 0 and the wrappers of the
\* standard library are not carriers.
Carrier(c) == c > 0 /\ ctxs[c].made # "WithValue"

\* The slip of attaching the new slot array to the parent itself: a carrier
\* stores in place, so the parent's reference is replaced as well.
NewVariableContextInPlace(p) ==
    LET c == Len(ctxs) + 1 IN
    /\ ctxs' = Append(IF Carrier(p) THEN [ctxs EXCEPT ![p] = WithValue(ctxs[p], c)]
                                    ELSE ctxs,
                      WithValue(Clone(p), c))
    /\ arrays' = Append(arrays, NewValues(p))

NewVariableContext(p) ==
    LET c == Len(ctxs) + 1 IN
    /\ ctxs' = Append(ctxs, WithValue(Clone(p), c))
    /\ arrays' = Append(arrays, NewValues(p))

NewVariableContextAct(p) ==
    /\ Step
    /\ Len(ctxs) < MaxCtx
    /\ NewVariableContext(p)
    /\ hist' = Append(hist, [i \in 1..Len(indexedVariables) |->
                                History("none", -1, ~NewValues(p)[i].Valid)])
    /\ ret' = [op |-> "NewVariableContext", res |-> Nil, err |-> NoErr,
               calls |-> 0, inner |-> "none", old |-> 0]
    /\ UNCHANGED <<variables, indexedVariables, index, value, tables>>

\* context.WithValue(p, "test", v) of the standard library: a wrapper that
\* answers "test" itself and resolves every other key through p, so it reads
\* and writes the slot array p resolves to. It allocates no array.
StdWithValue(p, v) ==
    /\ ctxs' = Append(ctxs, [parent |-> p, vars |-> KeyVariables(p), test |-> v,
                             made |-> "WithValue"])
    /\ arrays' = Append(arrays, <<>>)

StdWithValueAct(p, v) ==
    /\ Step
    /\ Len(ctxs) < MaxCtx
    /\ StdWithValue(p, v)
    /\ hist' = Append(hist, <<>>)
    /\ ret' = [op |-> "WithValue", res |-> Nil, err |-> NoErr,
               calls |-> 0, inner |-> "none", old |-> 0]
    /\ UNCHANGED <<variables, indexedVariables, index, value, tables>>

\* ------------------------------------------------------------ getters/setters
EmptyString == ""

\* getterImpl.Get: runs the getter function the descriptor was built with; a
\* descriptor built with a nil function answers errValueNotFound + its name.
\* (Getter() returns the *getterImpl itself, never a nil interface, so the
\* `getter == nil` tests of the callers never fire.)
\* A getter or resolver closure that calls ctx.Value on a nil context
\* dereferences a nil interface: a runtime panic.
getterImplGet(d, c, val, data) ==
    CASE Descs[d].getter = "env" ->
            [res |-> val, err |-> NoErr, calls |-> 1]
      [] Descs[d].getter = "echo" ->
            [res |-> data, err |-> NoErr, calls |-> 1]
      [] Descs[d].getter = "ambient" ->
            IF c = NilCtx THEN [res |-> Nil, err |-> Panic, calls |-> 1]
            ELSE [res |-> Payload(c), err |-> NoErr, calls |-> 1]
      [] Descs[d].getter = "needs" ->
            IF c = NilCtx THEN [res |-> Nil, err |-> Panic, calls |-> 1]
            ELSE IF IsString(Payload(c))
            THEN [res |-> Payload(c), err |-> NoErr, calls |-> 1]
            ELSE [res |-> EmptyString, err |-> Err("GetterFailed", ""), calls |-> 1]
      [] OTHER ->
            [res |-> Nil, err |-> Err("ValueNotFound", Descs[d].name), calls |-> 0]

\* The getter of a variable run on the variable's own data (variable.Data(),
\* nil for every descriptor built here).
getterGet(d, c, val) == getterImplGet(d, c, val, Nil)

\* The slip of marking the slot valid whatever the getter answered.
getIndexedValueMarksValid(arrs, val, c, a, idx) ==
    LET variable == indexedVariables[idx + 1]
        g == getterGet(variable, c, val)
    IN
    Outcome([arrs EXCEPT ![a][idx + 1] = IndexedValue(g.res, TRUE)], val,
            g.res, g.err, g.calls, "none")

\* getIndexedValue: fills the slot from the getter of the descriptor the
\* index table holds at idx.
getIndexedValue(arrs, val, c, a, idx) ==
    LET variable == indexedVariables[idx + 1]
        g == getterGet(variable, c, val)
    IN
    IF g.err # NoErr
    THEN Outcome([arrs EXCEPT ![a][idx + 1].Valid = FALSE], val,
                 g.res, g.err, g.calls, "none")
    ELSE Outcome([arrs EXCEPT ![a][idx + 1] = IndexedValue(g.res, TRUE)], val,
                 g.res, NoErr, g.calls, "none")

\* The slip of going to the getter whatever the slot holds.
getFlushedValueNoCache(arrs, val, c, idx) ==
    LET a == KeyVariables(c) IN
    IF a = 0
    THEN Outcome(arrs, val, EmptyString, Err("NoVariablesInContext", ""), 0, "none")
    ELSE IF idx >= Len(arrs[a])
    THEN Outcome(arrs, val, Nil, Panic, 0, "none")
    ELSE At(getIndexedValue(arrs, val, c, a, idx), a, idx)

\* The slip of running the getter function of the variable when the
\* context carries no slot array.
getFlushedValueFallsBack(arrs, val, c, idx) ==
    LET a == KeyVariables(c) IN
    IF c = NilCtx
    THEN Outcome(arrs, val, Nil, Panic, 0, "none")
    ELSE IF a = 0
    THEN IF idx >= Len(indexedVariables)
         THEN Outcome(arrs, val, Nil, Panic, 0, "none")
         ELSE Outcome(arrs, val, getterGet(indexedVariables[idx + 1], c, val).res,
                      getterGet(indexedVariables[idx + 1], c, val).err,
                      getterGet(indexedVariables[idx + 1], c, val).calls, "none")
    ELSE IF idx >= Len(arrs[a])
    THEN Outcome(arrs, val, Nil, Panic, 0, "none")
    ELSE IF arrs[a][idx + 1].Valid
    THEN At(Outcome(arrs, val, arrs[a][idx + 1].data, NoErr, 0, "none"), a, idx)
    ELSE At(getIndexedValue(arrs, val, c, a, idx), a, idx)

\* getFlushedValue: the cached data of a valid slot, else getIndexedValue.
\* ctx.Value on a nil context is a nil dereference.
getFlushedValue(arrs, val, c, idx) ==
    LET a == KeyVariables(c) IN
    IF c = NilCtx
    THEN Outcome(arrs, val, Nil, Panic, 0, "none")
    ELSE IF a = 0
    THEN Outcome(arrs, val, EmptyString, Err("NoVariablesInContext", ""), 0, "none")
    ELSE IF idx >= Len(arrs[a])
    THEN Outcome(arrs, val, Nil, Panic, 0, "none")
    ELSE IF arrs[a][idx + 1].Valid
    THEN At(Outcome(arrs, val, arrs[a][idx + 1].data, NoErr, 0, "none"), a, idx)
    ELSE At(getIndexedValue(arrs, val, c, a, idx), a, idx)

\* The slip of filling the slot from the getter of the variable handed in
\* instead of the getter of the variable the index table holds.
getByVariableOwnGetter(arrs, val, c, d) ==
    LET a == KeyVariables(c)
        g == getterGet(d, c, val)
    IN
    IF ~Indexer(d)
    THEN Outcome(arrs, val, g.res, g.err, g.calls, "none")
    ELSE IF c = NilCtx
    THEN Outcome(arrs, val, Nil, Panic, 0, "none")
    ELSE IF a = 0
    THEN Outcome(arrs, val, EmptyString, Err("NoVariablesInContext", ""), 0, "none")
    ELSE IF index[d] >= Len(arrs[a])
    THEN Outcome(arrs, val, Nil, Panic, 0, "none")
    ELSE IF arrs[a][index[d] + 1].Valid
    THEN At(Outcome(arrs, val, arrs[a][index[d] + 1].data, NoErr, 0, "none"),
            a, index[d])
    ELSE IF g.err # NoErr
    THEN At(Outcome([arrs EXCEPT ![a][index[d] + 1].Valid = FALSE], val,
                    g.res, g.err, g.calls, "none"), a, index[d])
    ELSE At(Outcome([arrs EXCEPT ![a][index[d] + 1] = IndexedValue(g.res, TRUE)], val,
                    g.res, NoErr, g.calls, "none"), a, index[d])

\* The slip of sending every variable to the slot array.
getByVariableAllCached(arrs, val, c, d) ==
    getFlushedValue(arrs, val, c, index[d])

\* getByVariable: an Indexer goes to its slot, any other variable to its
\* getter with no slot cell.
getByVariable(arrs, val, c, d) ==
    IF Indexer(d)
    THEN getFlushedValue(arrs, val, c, index[d])
    ELSE LET g == getterGet(d, c, val) IN
         Outcome(arrs, val, g.res, g.err, g.calls, "none")

\* The registered prefixes a name starts with. The prefixes registered here
\* do not overlap on any name asked for, so the map iteration of getByName
\* and Check finds at most one.
Matching(name) ==
    {prefix \in Prefixes : prefixVariables[prefix] # 0 /\ HasPrefix(name, prefix)}

\* The resolver the program installs as GetProtocol: the protocol is the
\* string the context carries as its ambient payload.
Resolve(c) ==
    IF c = NilCtx THEN [p |-> EmptyString, err |-> Panic]
    ELSE IF IsString(Payload(c)) THEN [p |-> Payload(c), err |-> NoErr]
    ELSE [p |-> EmptyString, err |-> Err("NoProtocolFound", "")]

\* What Get and Set are handed as their second argument: a name, a Variable,
\* or a value of another type.
ByName(n) == <<"string", n>>
ByVariable(d) == <<"Variable", d>>
ByOther == <<"other", 0>>

\* A failed call hands back the error with the zero value; a panic unwinds.
Failed(o, res, err) == [o EXCEPT !.res = res, !.err = err]

\* The tail of getByName: the answer of the protocol resources when they
\* gave one, else errUndefinedVariable + name.
orUndefined(r, name) ==
    IF r.err = NoErr \/ r.err = Panic THEN r
    ELSE Failed(r, EmptyString, Err("UndefinedVariable", name))

\* The tail of GetString: the error of Get as it is, else the value when it
\* is a string, else errVariableNotString.
asString(o) ==
    IF o.err = Panic THEN o
    ELSE IF o.err # NoErr THEN Failed(o, EmptyString, o.err)
    ELSE IF IsString(o.res) THEN o
    ELSE Failed(o, EmptyString, Err("VariableNotString", ""))

RECURSIVE getByName(_, _, _, _)
RECURSIVE GetProtocolResource(_, _, _, _, _)
RECURSIVE GetString(_, _, _, _)
RECURSIVE GetAny(_, _, _, _)

\* The slip of asking the prefix map before the exact-match map.
getByNamePrefixFirst(arrs, val, c, name) ==
    IF Matching(name) # {}
    THEN LET prefix == CHOOSE m \in Matching(name) : TRUE
             g == getterImplGet(prefixVariables[prefix], c, val, name)
         IN Outcome(arrs, val, g.res, g.err, g.calls, "none")
    ELSE IF Entry(variables, name) # 0
    THEN getByVariable(arrs, val, c, variables[name])
    ELSE orUndefined(GetProtocolResource(arrs, val, c, name, <<>>), name)

\* The slip of running the getter of a prefix variable on the variable's
\* own data instead of the requested name.
getByNameOwnData(arrs, val, c, name) ==
    IF Entry(variables, name) # 0
    THEN getByVariable(arrs, val, c, variables[name])
    ELSE IF Matching(name) # {}
    THEN LET prefix == CHOOSE m \in Matching(name) : TRUE
             g == getterImplGet(prefixVariables[prefix], c, val, Nil)
         IN Outcome(arrs, val, g.res, g.err, g.calls, "none")
    ELSE orUndefined(GetProtocolResource(arrs, val, c, name, <<>>), name)

\* getByName: the exact-match map, then the prefix map (the getter of the
\* matching prefix variable, run on the requested name with no slot cell),
\* then the protocol resources, then errUndefinedVariable.
getByName(arrs, val, c, name) ==
    IF Entry(variables, name) # 0
    THEN getByVariable(arrs, val, c, variables[name])
    ELSE IF Matching(name) # {}
    THEN LET prefix == CHOOSE m \in Matching(name) : TRUE
             g == getterImplGet(prefixVariables[prefix], c, val, name)
         IN Outcome(arrs, val, g.res, g.err, g.calls, "none")
    ELSE orUndefined(GetProtocolResource(arrs, val, c, name, <<>>), name)

\* The slip of asking the resolver without testing that one is installed.
GetProtocolResourceUnguarded(arrs, val, c, name, data) ==
    IF Resolve(c).err # NoErr
    THEN Outcome(arrs, val, EmptyString, Resolve(c).err, 0, "none")
    ELSE IF convert(Resolve(c).p, name) \in DOMAIN protocolVar
    THEN GetString(arrs, val, c,
                   ByName(IF Len(data) = 1
                          THEN protocolVar[convert(Resolve(c).p, name)] \o data[1]
                          ELSE protocolVar[convert(Resolve(c).p, name)]))
    ELSE Outcome(arrs, val, EmptyString,
                 Err("UnregisterProtocolResource", Resolve(c).p), 0, "none")

\* The slip of answering from the mapping of any protocol that has one for
\* the resource.
GetProtocolResourceAnyProtocol(arrs, val, c, name, data) ==
    IF GetProtocol = Nil
    THEN Outcome(arrs, val, EmptyString, Err("NoGetProtocol", ""), 0, "none")
    ELSE IF Resolve(c).err # NoErr
    THEN Outcome(arrs, val, EmptyString, Resolve(c).err, 0, "none")
    ELSE IF \E p \in Values : convert(p, name) \in DOMAIN protocolVar
    THEN LET p == CHOOSE p \in Values : convert(p, name) \in DOMAIN protocolVar
             v == protocolVar[convert(p, name)]
         IN GetString(arrs, val, c,
                      ByName(IF Len(data) = 1 THEN v \o data[1] ELSE v))
    ELSE Outcome(arrs, val, EmptyString,
                 Err("UnregisterProtocolResource", Resolve(c).p), 0, "none")

\* GetProtocolResource(ctx, name, data...): the string-typed Get of the
\* variable name protocolVar maps the context's protocol and name to, with
\* data appended when one is given.
GetProtocolResource(arrs, val, c, name, data) ==
    IF GetProtocol = Nil
    THEN Outcome(arrs, val, EmptyString, Err("NoGetProtocol", ""), 0, "none")
    ELSE IF Resolve(c).err # NoErr
    THEN Outcome(arrs, val, EmptyString, Resolve(c).err, 0, "none")
    ELSE LET p == Resolve(c).p IN
         IF convert(p, name) \in DOMAIN protocolVar
         THEN LET v == protocolVar[convert(p, name)] IN
              GetString(arrs, val, c,
                        ByName(IF Len(data) = 1 THEN v \o data[1] ELSE v))
         ELSE Outcome(arrs, val, EmptyString,
                      Err("UnregisterProtocolResource", p), 0, "none")

\* The slip of dropping from the cache a value that fails the type check.
GetStringEvicts(arrs, val, c, i) ==
    IF /\ GetAny(arrs, val, c, i).err = NoErr
       /\ ~IsString(GetAny(arrs, val, c, i).res)
       /\ GetAny(arrs, val, c, i).cell # NoCell
    THEN [asString(GetAny(arrs, val, c, i)) EXCEPT
            !.arrays[GetAny(arrs, val, c, i).cell[1]]
                    [GetAny(arrs, val, c, i).cell[2] + 1].Valid = FALSE]
    ELSE asString(GetAny(arrs, val, c, i))

\* GetString: Get, then the type check of the value.
GetString(arrs, val, c, i) ==
    asString(GetAny(arrs, val, c, i))

\* Get: by the dynamic type of its second argument.
GetAny(arrs, val, c, i) ==
    CASE i[1] = "string" -> getByName(arrs, val, c, i[2])
      [] i[1] = "Variable" -> getByVariable(arrs, val, c, i[2])
      [] OTHER -> Outcome(arrs, val, Nil, Err("invalidVariableIndex", ""), 0, "none")

\* The name getByName(ctx, name) asks for next: when name is in neither the
\* exact-match map nor the prefix map and protocolVar maps the context's
\* protocol and name to a variable name, GetProtocolResource calls GetString,
\* and so getByName, on that variable name. Nil when the call returns without
\* calling getByName again.
Forwarded(c, name) ==
    IF Entry(variables, name) # 0 \/ Matching(name) # {} THEN Nil
    ELSE IF GetProtocol = Nil \/ Resolve(c).err # NoErr THEN Nil
    ELSE IF convert(Resolve(c).p, name) \in DOMAIN protocolVar
    THEN protocolVar[convert(Resolve(c).p, name)]
    ELSE Nil

\* The calls of getByName nested in getByName(ctx, name), counted up to fuel.
RECURSIVE Indirections(_, _, _)
Indirections(c, name, fuel) ==
    IF fuel = 0 \/ Forwarded(c, name) = Nil THEN 0
    ELSE 1 + Indirections(c, Forwarded(c, name), fuel - 1)

\* getByName(ctx, name) returns: each nested call reads another key of
\* protocolVar, so a chain of more nested calls than protocolVar has keys
\* has come back to a name it asked before and goes on for ever.
Terminates(c, name) ==
    Indirections(c, name, Cardinality(DOMAIN protocolVar) + 1)
        <= Cardinality(DOMAIN protocolVar)

\* How a Get issued by a setter ended.
InnerOf(g) ==
    IF g.err # NoErr THEN "err" ELSE IF g.calls = 0 THEN "hit" ELSE "miss"

\* setterImpl.Set: runs the setter function of descriptor d on the slot cell;
\* a string setter only after the value passed the string type check.
setterSet(arrs, val, c, a, idx, d, x) ==
  Ran(At(
    CASE Descs[d].setter = "default" ->
            Outcome([arrs EXCEPT ![a][idx + 1] = IndexedValue(x, TRUE)], val,
                    Nil, NoErr, 0, "none")
      [] Descs[d].setter = "ext" ->
            Outcome(arrs, x, Nil, NoErr, 0, "none")
      [] Descs[d].setter = "reget" ->
            LET g == getByName(arrs, val, c, Descs[d].name) IN
            [Outcome(g.arrays, val, Nil, NoErr, g.calls, InnerOf(g))
                EXCEPT !.icell = g.cell]
      [] Descs[d].setter = "fail" ->
            Outcome(arrs, val, Nil, Err("SetterFailed", ""), 0, "none")
      [] Descs[d].setter = "string" ->
            IF IsString(x)
            THEN Outcome([arrs EXCEPT ![a][idx + 1] = IndexedValue(x, TRUE)], val,
                         Nil, NoErr, 0, "none")
            ELSE Outcome(arrs, val, Nil, Err("ValueNotString", ""), 0, "none")
      [] OTHER ->
            Outcome(arrs, val, Nil, Err("SetterNotFound", Descs[d].name), 0, "none"),
    a, idx), Descs[d].setter)

\* The slip of invalidating the slot after the setter has run.
setFlushedValueInvalidateLast(arrs, val, c, idx, x) ==
    LET a == KeyVariables(c) IN
    IF a = 0
    THEN Outcome(arrs, val, Nil, Err("NoVariablesInContext", ""), 0, "none")
    ELSE IF idx >= Len(indexedVariables) \/ idx >= Len(arrs[a])
    THEN Outcome(arrs, val, Nil, Panic, 0, "none")
    ELSE LET variable == indexedVariables[idx + 1]
             o == setterSet(arrs, val, c, a, idx, variable, x)
         IN [o EXCEPT !.arrays[a][idx + 1].Valid = FALSE]

\* The slip of running the setter on the slot as it stands.
setFlushedValueNoInvalidate(arrs, val, c, idx, x) ==
    LET a == KeyVariables(c) IN
    IF a = 0
    THEN Outcome(arrs, val, Nil, Err("NoVariablesInContext", ""), 0, "none")
    ELSE IF idx >= Len(indexedVariables) \/ idx >= Len(arrs[a])
    THEN Outcome(arrs, val, Nil, Panic, 0, "none")
    ELSE setterSet(arrs, val, c, a, idx, indexedVariables[idx + 1], x)

\* setFlushedValue: invalidates the slot, then runs the setter of the
\* descriptor the index table holds at idx.
setFlushedValue(arrs, val, c, idx, x) ==
    LET a == KeyVariables(c) IN
    IF c = NilCtx
    THEN Outcome(arrs, val, Nil, Panic, 0, "none")
    ELSE IF a = 0
    THEN Outcome(arrs, val, Nil, Err("NoVariablesInContext", ""), 0, "none")
    ELSE IF idx >= Len(indexedVariables) \/ idx >= Len(arrs[a])
    THEN Outcome(arrs, val, Nil, Panic, 0, "none")
    ELSE LET variable == indexedVariables[idx + 1]
             invalidated == [arrs EXCEPT ![a][idx + 1].Valid = FALSE]
         IN setterSet(invalidated, val, c, a, idx, variable, x)

\* The slip of sending every variable to the slot array.
setByVariableAny(arrs, val, c, d, x) ==
    setFlushedValue(arrs, val, c, index[d], x)

\* setByVariable: an Indexer goes to its slot; any other variable is rejected
\* with errSupportIndexedOnly.
setByVariable(arrs, val, c, d, x) ==
    IF Indexer(d)
    THEN setFlushedValue(arrs, val, c, index[d], x)
    ELSE Outcome(arrs, val, Nil, Err("SupportIndexedOnly", ""), 0, "none")

\* setByName: rejects a nil context, then the variable of the exact-match
\* map as setByVariable; a name that is not in that map is rejected with
\* errSupportIndexedOnly.
setByName(arrs, val, c, name, x) ==
    IF c = NilCtx
    THEN Outcome(arrs, val, Nil, Err("InvalidContext", ""), 0, "none")
    ELSE IF Entry(variables, name) # 0
    THEN setByVariable(arrs, val, c, variables[name], x)
    ELSE Outcome(arrs, val, Nil, Err("SupportIndexedOnly", ""), 0, "none")

\* Set: by the dynamic type of its second argument.
SetAny(arrs, val, c, i, x) ==
    CASE i[1] = "string" -> setByName(arrs, val, c, i[2], x)
      [] i[1] = "Variable" -> setByVariable(arrs, val, c, i[2], x)
      [] OTHER -> Outcome(arrs, val, Nil, Err("invalidVariableIndex", ""), 0, "none")

\* SetString: rejects a nil context, then Set.
SetString(arrs, val, c, i, x) ==
    IF c = NilCtx
    THEN Outcome(arrs, val, Nil, Err("InvalidContext", ""), 0, "none")
    ELSE SetAny(arrs, val, c, i, x)

\* The slip of accepting a name some protocol has a resource mapping for.
CheckAdapted(name) ==
    IF Entry(variables, name) # 0
    THEN [variable |-> variables[name], err |-> NoErr]
    ELSE IF Matching(name) # {}
    THEN [variable |-> prefixVariables[CHOOSE m \in Matching(name) : TRUE],
          err |-> NoErr]
    ELSE IF \E p \in Values : convert(p, name) \in DOMAIN protocolVar
    THEN [variable |-> 0, err |-> NoErr]
    ELSE [variable |-> 0, err |-> Err("UndefinedVariable", name)]

\* Check: the exact-match map, then the prefix map, then
\* errUndefinedVariable. variable is the descriptor found, 0 for nil.
Check(name) ==
    IF Entry(variables, name) # 0
    THEN [variable |-> variables[name], err |-> NoErr]
    ELSE IF Matching(name) # {}
    THEN [variable |-> prefixVariables[CHOOSE m \in Matching(name) : TRUE],
          err |-> NoErr]
    ELSE [variable |-> 0, err |-> Err("UndefinedVariable", name)]

\* ------------------------------------------------------------------ Get/Set
\* Get(ctx, name), Get(ctx, variable), Set(ctx, name, x), Set(ctx, variable, x)
AfterGet(o) ==
    IF o.cell = NoCell THEN hist
    ELSE IF ~o.arrays[o.cell[1]][o.cell[2] + 1].Valid THEN hist
    ELSE [hist EXCEPT ![o.cell[1]][o.cell[2] + 1] = History(@.set, o.calls, FALSE)]

AfterSet(o, x) ==
    LET h == IF o.icell = NoCell \/ o.inner = "err" THEN hist
             ELSE [hist EXCEPT ![o.icell[1]][o.icell[2] + 1] =
                        History(@.set, o.calls, FALSE)]
    IN
    IF o.cell = NoCell THEN h
    ELSE [h EXCEPT ![o.cell[1]][o.cell[2] + 1] =
            History(IF o.err = NoErr /\ o.setter = "default" THEN x ELSE "none",
                    -1, FALSE)]

Apply(op, o, h) ==
    /\ Step
    /\ arrays' = o.arrays
    /\ value' = o.value
    /\ ret' = Ret(op, o)
    /\ hist' = h
    /\ UNCHANGED <<variables, indexedVariables, index, ctxs, tables>>

Get(c, o) == Apply("Get", o, AfterGet(o))
Set(c, o, x) == Apply("Set", o, AfterSet(o, x))

GetNameAct(c, name) == Get(c, getByName(arrays, value, c, name))
GetVarAct(c, d) == Get(c, getByVariable(arrays, value, c, d))
SetNameAct(c, name, x) == Set(c, setByName(arrays, value, c, name, x), x)
SetVarAct(c, d, x) == Set(c, setByVariable(arrays, value, c, d, x), x)

GetStringAct(c, i) ==
    LET o == GetString(arrays, value, c, i) IN
    Apply("GetString", o, AfterGet(o))

SetStringAct(c, i, x) ==
    Apply("SetString", SetString(arrays, value, c, i, x),
          AfterSet(SetString(arrays, value, c, i, x), x))

GetProtocolResourceAct(c, name, data) ==
    LET o == GetProtocolResource(arrays, value, c, name, data) IN
    Apply("GetProtocolResource", o, AfterGet(o))

CheckAct(name) ==
    /\ Step
    /\ ret' = Returned("Check", Check(name).err)
    /\ UNCHANGED <<variables, indexedVariables, index, ctxs, arrays, value, hist,
                   tables>>

\* ------------------------------------------------------------ specification
Init ==
    /\ variables = [n \in Names |-> 0]
    /\ indexedVariables = <<>>
    /\ index = [d \in DescIds |-> 0]
    /\ ctxs = <<>>
    /\ arrays = <<>>
    /\ value = "p"
    /\ hist = <<>>
    /\ steps = 0
    /\ prefixVariables = [n \in Prefixes |-> 0]
    /\ protocolVar = <<>>
    /\ GetProtocol = Nil
    /\ NewSyncList
    /\ NewIoBufferChain
    /\ NoRegistrar
    /\ ret = [op |-> "init", res |-> Nil, err |-> NoErr, calls |-> 0,
              inner |-> "none", old |-> 0]

Next ==
    \/ \E d \in Engine : RegisterAct(d)
    \/ \E d \in Engine : OverrideAct(d)
    \/ \E p \in CtxIds : NewVariableContextAct(p)
    \/ \E p \in CtxIds, v \in Values : StdWithValueAct(p, v)
    \/ \E c \in CtxIds, n \in EngineNames : GetNameAct(c, n)
    \/ \E c \in CtxIds, d \in Engine : GetVarAct(c, d)
    \/ \E c \in CtxIds, n \in EngineNames, x \in Values : SetNameAct(c, n, x)
    \/ \E c \in CtxIds, d \in Engine, x \in Values : SetVarAct(c, d, x)

Spec == Init /\ [][Next]_vars

\* The state after construction, the protocol resolver installed or not.
Start(resolvers) ==
    /\ variables = [n \in Names |-> 0]
    /\ indexedVariables = <<>>
    /\ index = [d \in DescIds |-> 0]
    /\ ctxs = <<>>
    /\ arrays = <<>>
    /\ value = "p"
    /\ hist = <<>>
    /\ steps = 0
    /\ prefixVariables = [n \in Prefixes |-> 0]
    /\ protocolVar = <<>>
    /\ GetProtocol \in resolvers
    /\ NewSyncList
    /\ NewIoBufferChain
    /\ NoRegistrar
    /\ ret = [op |-> "init", res |-> Nil, err |-> NoErr, calls |-> 0,
              inner |-> "none", old |-> 0]

\* The runs of the name resolution: the program has or has not installed
\* its protocol resolver, registers variables, prefix variables and protocol
\* resources, makes contexts and asks for names of all three namespaces.
ResDescs == {2, 6}
PrefixDescs == {9}
Data == {<<>>} \cup {<<t>> : t \in Suffixes}

InitRes == Start({Nil, "Resolve"})

NextRes ==
    \/ \E d \in ResDescs : RegisterAct(d)
    \/ \E d \in ResDescs : OverrideAct(d)
    \/ \E m \in Prefixes, d \in PrefixDescs : RegisterPrefixAct(m, d)
    \/ \E m \in Prefixes, d \in PrefixDescs : OverridePrefixAct(m, d)
    \/ \E p \in Values, k \in Kinds, n \in Backings :
            RegisterProtocolResourceAct(p, k, n)
    \/ \E p \in CtxIds : NewVariableContextAct(p)
    \/ \E p \in CtxIds, v \in Values : StdWithValueAct(p, v)
    \/ \E c \in CtxIds, n \in Asked : GetNameAct(c, n)
    \/ \E n \in Asked : CheckAct(n)
    \/ \E c \in CtxIds, k \in Kinds, data \in Data :
            GetProtocolResourceAct(c, k, data)

SpecRes == InitRes /\ [][NextRes]_vars

\* The runs of the error paths: the program registers variables whose getter
\* or setter can fail and a prefix variable, and calls Get, Set, GetString
\* and SetString by name and by reference, with a nil context and with
\* non-string values as well.
ErrDescs == {4, 7, 8}
Callers == CtxIds \cup {NilCtx}
Targets == {ByName(n) : n \in {"a", "ax"}} \cup {ByVariable(d) : d \in ErrDescs}

GetAct(c, i) ==
    LET o == GetAny(arrays, value, c, i) IN
    Apply("Get", o, AfterGet(o))

SetAct(c, i, x) == Set(c, SetAny(arrays, value, c, i, x), x)

InitErr == Start({Nil})

NextErr ==
    \/ \E d \in ErrDescs : RegisterAct(d)
    \/ \E d \in PrefixDescs : RegisterPrefixAct("a", d)
    \/ \E p \in CtxIds : NewVariableContextAct(p)
    \/ \E p \in CtxIds : StdWithValueAct(p, "q")
    \/ \E c \in Callers, i \in Targets : GetAct(c, i)
    \/ \E c \in Callers, i \in Targets, x \in {"q", Nil} : SetAct(c, i, x)
    \/ \E c \in Callers, i \in Targets : GetStringAct(c, i)
    \/ \E c \in Callers, i \in Targets : SetStringAct(c, i, "q")

SpecErr == InitErr /\ [][NextErr]_vars

\* The runs of the prefix namespace: the program registers and overrides
\* variables by name and by prefix, a prefix variable built with a setter
\* function among them, makes contexts, checks names and uses the variable
\* Check returns as the reference of Get and Set.
PreDescs == {2, 4, 5}
PreVars == {9, 10}
PreNames == {"a", "ax", "b"}

GetCheckedAct(c, name) ==
    /\ Check(name).err = NoErr
    /\ Get(c, getByVariable(arrays, value, c, Check(name).variable))

SetCheckedAct(c, name, x) ==
    /\ Check(name).err = NoErr
    /\ Set(c, setByVariable(arrays, value, c, Check(name).variable, x), x)

InitPre == Start({Nil})

NextPre ==
    \/ \E d \in PreDescs : RegisterAct(d)
    \/ \E d \in PreDescs : OverrideAct(d)
    \/ \E m \in Prefixes, d \in PreVars : RegisterPrefixAct(m, d)
    \/ \E m \in Prefixes, d \in PreVars : OverridePrefixAct(m, d)
    \/ \E p \in CtxIds : NewVariableContextAct(p)
    \/ \E n \in PreNames : CheckAct(n)
    \/ \E c \in CtxIds, n \in PreNames : GetNameAct(c, n)
    \/ \E c \in CtxIds, n \in PreNames : GetCheckedAct(c, n)
    \/ \E c \in CtxIds, n \in PreNames : SetCheckedAct(c, n, "q")

SpecPre == InitPre /\ [][NextPre]_vars

\* The runs of the typed wrappers: the program registers variables whose
\* value is or is not a string, and calls Get and GetString, Set and
\* SetString by name and by reference.
TypDescs == {2, 4, 11}
TypTargets == {ByName(n) : n \in {"a", "b"}} \cup {ByVariable(d) : d \in TypDescs}

InitTyp == Start({Nil})

NextTyp ==
    \/ \E d \in TypDescs : RegisterAct(d)
    \/ \E p \in CtxIds : NewVariableContextAct(p)
    \/ \E p \in CtxIds : StdWithValueAct(p, "q")
    \/ \E c \in CtxIds, i \in TypTargets : GetAct(c, i)
    \/ \E c \in CtxIds, i \in TypTargets, x \in {"q", Nil} : SetAct(c, i, x)
    \/ \E c \in CtxIds, i \in TypTargets : GetStringAct(c, i)
    \/ \E c \in CtxIds, i \in TypTargets : SetStringAct(c, i, "q")

SpecTyp == InitTyp /\ [][NextTyp]_vars

\* The variable package at rest.
Idle ==
    UNCHANGED <<variables, indexedVariables, index, ctxs, arrays, value, ret, hist,
                steps, prefixVariables, protocolVar, GetProtocol, locks>>

\* The runs of a SyncList: elements are pushed and removed while VisitSafe
\* calls go through the list.
InitList == Start({Nil})

NextList ==
    \/ PushBackAct /\ Idle
    \/ \E e \in 1..elems : RemoveAct(e) /\ Idle
    \/ VisitSafeAct /\ Idle
    \/ VisitAct /\ Idle
    \/ CallAct /\ Idle

SpecList == InitList /\ [][NextList]_vars

\* The runs of a buffer chain: goroutines write to it, one reads from it and
\* others close it. The variable package and the SyncList are at rest.
InitBuf == Start({Nil})

NextBuf ==
    \/ \E w \in Writers : WriteAct(w) /\ Idle /\ UNCHANGED lists
    \/ \E w \in Writers : WriteLockAct(w) /\ Idle /\ UNCHANGED lists
    \/ \E w \in Writers : WriteTickAct(w) /\ Idle /\ UNCHANGED lists
    \/ \E w \in Writers : WriteEOFAct(w) /\ Idle /\ UNCHANGED lists
    \/ BytesAct /\ Idle /\ UNCHANGED lists
    \/ \E k \in Closers : CloseWithErrorAct(k) /\ Idle /\ UNCHANGED lists
    \/ \E k \in Closers : CloseErrChanAct(k) /\ Idle /\ UNCHANGED lists
    \/ \E k \in Closers : CloseLockAct(k) /\ Idle /\ UNCHANGED lists

SpecBuf == InitBuf /\ [][NextBuf]_vars

\* ------------------------------------------------- concurrent registration
\* What a registry operation called alone would leave of the tables, and the
\* error it would return: the outcome a goroutine is owed from the moment it
\* holds the lock.
Plan(vs, ivs, idx, pvs, err) ==
    [variables |-> vs, indexedVariables |-> ivs, index |-> idx,
     prefixVariables |-> pvs, err |-> err]

Planned(op, d, m) ==
    CASE op = "Register" ->
            Plan(Register(d).variables, Register(d).indexedVariables,
                 Register(d).index, prefixVariables, Register(d).err)
      [] op = "Override" ->
            Plan(Override(d).variables, Override(d).indexedVariables,
                 Override(d).index, prefixVariables, Override(d).err)
      [] op = "RegisterPrefix" ->
            Plan(variables, indexedVariables, index, RegisterPrefix(m, d).map,
                 RegisterPrefix(m, d).err)
      [] OTHER ->
            Plan(variables, indexedVariables, index, OverridePrefix(m, d).map,
                 OverridePrefix(m, d).err)

\* The slip of a lock that lets a second goroutine in.
LockShared(g) == TRUE

\* mux.Lock(): granted while no goroutine holds the lock.
Lock(g) == mux = 0

\* The operation of goroutine g returns e: the deferred mux.Unlock() runs.
Unlocked(g, e) ==
    /\ rpc' = [rpc EXCEPT ![g] = [Outside EXCEPT !.plan = rpc[g].plan]]
    /\ rres' = [rres EXCEPT ![g] = e]
    /\ mux' = 0

\* What the steps of a registry operation leave alone.
Contexts == <<ctxs, arrays, value, ret, hist, protocolVar, GetProtocol>>

\* Every step of a registry operation counts against the run's budget.
Tick == steps < MaxSteps /\ steps' = steps + 1 /\ UNCHANGED <<lists, chains>>

\* Register, Override, RegisterPrefix or OverridePrefix up to mux.Lock().
\* The call is not made when alone it would grow the index table beyond
\* MaxIndex.
LockAct(g, op, d, m) ==
    /\ Tick
    /\ rpc[g].pc = "idle"
    /\ Lock(g)
    /\ Len(Planned(op, d, m).indexedVariables) <= MaxIndex
    /\ mux' = g
    /\ rpc' = [rpc EXCEPT ![g] = [pc |-> "check", op |-> op, d |-> d, m |-> m,
                                  old |-> 0, plan |-> Planned(op, d, m)]]
    /\ UNCHANGED <<variables, indexedVariables, index, prefixVariables, rres,
                   Contexts>>

\* The test of the map and the write of the entry. Register and Override
\* of an Indexer go on to the index; every other call returns here.
EntryAct(g) ==
    LET d == rpc[g].d
        m == rpc[g].m
        name == Descs[d].name
    IN
    /\ Tick
    /\ rpc[g].pc = "check"
    /\ CASE rpc[g].op = "Register" ->
              IF variables[name] # 0
              THEN /\ Unlocked(g, Err("VariableDuplicated", name))
                   /\ UNCHANGED <<variables, prefixVariables>>
              ELSE /\ variables' = [variables EXCEPT ![name] = d]
                   /\ IF Indexer(d)
                      THEN /\ rpc' = [rpc EXCEPT ![g].pc = "index"]
                           /\ UNCHANGED <<mux, rres>>
                      ELSE Unlocked(g, NoErr)
                   /\ UNCHANGED prefixVariables
         [] rpc[g].op = "Override" ->
              IF variables[name] = 0
              THEN /\ Unlocked(g, Err("VariableNotRegister", name))
                   /\ UNCHANGED <<variables, prefixVariables>>
              ELSE /\ variables' = [variables EXCEPT ![name] = d]
                   /\ IF Indexer(d)
                      THEN /\ rpc' = [rpc EXCEPT ![g].pc = "index",
                                                 ![g].old = variables[name]]
                           /\ UNCHANGED <<mux, rres>>
                      ELSE Unlocked(g, NoErr)
                   /\ UNCHANGED prefixVariables
         [] rpc[g].op = "RegisterPrefix" ->
              /\ IF prefixVariables[m] # 0
                 THEN /\ Unlocked(g, Err("PrefixDuplicated", m))
                      /\ UNCHANGED prefixVariables
                 ELSE /\ Unlocked(g, NoErr)
                      /\ prefixVariables' = [prefixVariables EXCEPT ![m] = d]
              /\ UNCHANGED variables
         [] OTHER ->
              /\ IF prefixVariables[m] = 0
                 THEN /\ Unlocked(g, Err("PrefixNotRegister", m))
                      /\ UNCHANGED prefixVariables
                 ELSE /\ Unlocked(g, NoErr)
                      /\ prefixVariables' = [prefixVariables EXCEPT ![m] = d]
              /\ UNCHANGED variables
    /\ UNCHANGED <<indexedVariables, index, Contexts>>

\* SetIndex: the index of the Indexer replaced by Override, else the length
\* of the index table.
IndexAct(g) ==
    /\ Tick
    /\ rpc[g].pc = "index"
    /\ index' = [index EXCEPT ![rpc[g].d] =
                    IF rpc[g].old # 0 /\ Indexer(rpc[g].old)
                    THEN index[rpc[g].old]
                    ELSE Len(indexedVariables)]
    /\ rpc' = [rpc EXCEPT ![g].pc = "table"]
    /\ UNCHANGED <<variables, indexedVariables, prefixVariables, mux, rres,
                   Contexts>>

\* The write of the index table: in place for an Override of an Indexer
\* (a write beyond the end of the table leaves it alone here), appended
\* else; the call returns.
TableAct(g) ==
    /\ Tick
    /\ rpc[g].pc = "table"
    /\ indexedVariables' =
          IF rpc[g].old # 0 /\ Indexer(rpc[g].old)
          THEN IF index[rpc[g].old] < Len(indexedVariables)
               THEN [indexedVariables EXCEPT ![index[rpc[g].old] + 1] = rpc[g].d]
               ELSE indexedVariables
          ELSE Append(indexedVariables, rpc[g].d)
    /\ Unlocked(g, NoErr)
    /\ UNCHANGED <<variables, index, prefixVariables, Contexts>>

\* Get by name while a goroutine is about to write the name map: the read
\* and the write of the Go map are not ordered, and the runtime may end the
\* process with "concurrent map read and map write". Nothing runs after it.
GetFatalAct(c, name) ==
    /\ steps < MaxSteps
    /\ \E g \in Registrars : rpc[g].pc = "check" /\ rpc[g].op \in {"Register", "Override"}
    /\ ret' = [op |-> "Get", res |-> Nil, err |-> Err("fatal", name),
               calls |-> 0, inner |-> "none", old |-> 0]
    /\ steps' = MaxSteps
    /\ rpc' = [g \in Registrars |-> [rpc[g] EXCEPT !.pc = "dead"]]
    /\ UNCHANGED <<variables, indexedVariables, index, prefixVariables, ctxs, arrays,
                   value, hist, protocolVar, GetProtocol, mux, rres, lists, chains>>

\* The runs of registration under traffic: two goroutines call the registry
\* operations while contexts are made and variables are read and written
\* by name, which takes no lock.
ConDescs == {2, 4, 5}
ConVars == {9}
ConNames == {"a", "b"}

\* At the start the registry is empty or holds the variable "a" registered
\* when the program was set up.
InitCon ==
    /\ \/ /\ variables = [n \in Names |-> 0]
          /\ indexedVariables = <<>>
       \/ /\ variables = [n \in Names |-> IF n = "a" THEN 2 ELSE 0]
          /\ indexedVariables = <<2>>
    /\ index = [d \in DescIds |-> 0]
    /\ ctxs = <<>>
    /\ arrays = <<>>
    /\ value = "p"
    /\ hist = <<>>
    /\ steps = 0
    /\ prefixVariables = [n \in Prefixes |-> 0]
    /\ protocolVar = <<>>
    /\ GetProtocol = Nil
    /\ NewSyncList
    /\ NewIoBufferChain
    /\ NoRegistrar
    /\ ret = [op |-> "init", res |-> Nil, err |-> NoErr, calls |-> 0,
              inner |-> "none", old |-> 0]

NextCon ==
    \/ \E g \in Registrars, d \in ConDescs : LockAct(g, "Register", d, "")
    \/ \E g \in Registrars, d \in ConDescs : LockAct(g, "Override", d, "")
    \/ \E g \in Registrars, d \in ConVars : LockAct(g, "RegisterPrefix", d, "a")
    \/ \E g \in Registrars, d \in ConVars : LockAct(g, "OverridePrefix", d, "a")
    \/ \E g \in Registrars : EntryAct(g)
    \/ \E g \in Registrars : IndexAct(g)
    \/ \E g \in Registrars : TableAct(g)
    \/ \E p \in CtxIds : NewVariableContextAct(p)
    \/ \E c \in CtxIds, n \in ConNames : GetNameAct(c, n)
    \/ \E c \in CtxIds, n \in ConNames : SetNameAct(c, n, "q")
    \/ \E c \in CtxIds, n \in ConNames : GetFatalAct(c, n)

SpecCon == InitCon /\ [][NextCon]_vars

\* ------------------------------------------------------------ the carrier
\* mosnctx.WithValue(c, KeyVariables, a): a carrier stores the value in its
\* own table and is returned itself, so every holder of c sees the new slot
\* array; any other context is wrapped in a new carrier that holds a. The
\* result is the contexts afterwards and the context returned.
CarrierWithValue(c, a) ==
    IF Carrier(c)
    THEN [ctxs |-> [ctxs EXCEPT ![c] = WithValue(ctxs[c], a)], ctx |-> c]
    ELSE [ctxs |-> Append(ctxs, [WithValue(Clone(c), a) EXCEPT !.made = "mosnctx.WithValue"]),
          ctx |-> Len(ctxs) + 1]

\* The slot arrays made so far (a context made otherwise made none).
SlotArrays == {a \in 1..Len(ctxs) : ctxs[a].made = "NewVariableContext"}

CarrierWithValueAct(c, a) ==
    /\ Step
    /\ Len(CarrierWithValue(c, a).ctxs) <= MaxCtx
    /\ ctxs' = CarrierWithValue(c, a).ctxs
    /\ arrays' = IF Carrier(c) THEN arrays ELSE Append(arrays, <<>>)
    /\ hist' = IF Carrier(c) THEN hist ELSE Append(hist, <<>>)
    /\ ret' = [op |-> "mosnctx.WithValue", res |-> Nil, err |-> NoErr,
               calls |-> 0, inner |-> "none", old |-> CarrierWithValue(c, a).ctx]
    /\ UNCHANGED <<variables, indexedVariables, index, value, tables>>

\* mosnctx.Clone(c) called on its own: a carrier is copied, table and all,
\* into a new carrier; any other context is returned itself.
CloneAct(c) ==
    /\ Step
    /\ Carrier(c) => Len(ctxs) < MaxCtx
    /\ ctxs' = IF Carrier(c) THEN Append(ctxs, [Clone(c) EXCEPT !.made = "Clone"])
                             ELSE ctxs
    /\ arrays' = IF Carrier(c) THEN Append(arrays, <<>>) ELSE arrays
    /\ hist' = IF Carrier(c) THEN Append(hist, <<>>) ELSE hist
    /\ ret' = [op |-> "Clone", res |-> Nil, err |-> NoErr, calls |-> 0,
               inner |-> "none", old |-> IF Carrier(c) THEN Len(ctxs) + 1 ELSE c]
    /\ UNCHANGED <<variables, indexedVariables, index, value, tables>>

\* The runs of the carrier: contexts are made, cloned and given another slot
\* array in place while the variable "a" is registered, read and written.
InitCtx == Start({Nil})

NextCtx ==
    \/ RegisterAct(2)
    \/ \E p \in CtxIds : NewVariableContextAct(p)
    \/ \E c \in CtxIds : CloneAct(c)
    \/ \E c \in CtxIds, a \in SlotArrays : CarrierWithValueAct(c, a)
    \/ \E c \in CtxIds : GetNameAct(c, "a")
    \/ \E c \in CtxIds : SetNameAct(c, "a", "q")

SpecCtx == InitCtx /\ [][NextCtx]_vars

\* ------------------------------------------------- resources by any name
\* Get by name when it returns.
GetReturnsAct(c, name) == Terminates(c, name) /\ GetNameAct(c, name)

\* Get by name when the nested calls never end: the goroutine's stack grows
\* to its limit and the runtime ends the process with "stack overflow".
\* Nothing runs after it.
GetOverflowAct(c, name) ==
    /\ steps < MaxSteps
    /\ ~Terminates(c, name)
    /\ ret' = [op |-> "Get", res |-> Nil, err |-> Err("stack overflow", name),
               calls |-> 0, inner |-> "none", old |-> 0]
    /\ steps' = MaxSteps
    /\ UNCHANGED <<variables, indexedVariables, index, prefixVariables, ctxs, arrays,
                   value, hist, protocolVar, GetProtocol, locks, lists, chains>>

\* The runs of the protocol resources registered under any resource name:
\* api.ProtocolResourceName is a string type, and the program registers the
\* kind "k" and a resource named as the variable names protocolVar stores.
CycKinds == {"k", "p_a"}
CycDescs == {6}
CycNames == {"a", "k", "p_a"}

InitCyc == Start({"Resolve"})

NextCyc ==
    \/ \E d \in CycDescs : RegisterAct(d)
    \/ \E d \in PrefixDescs : RegisterPrefixAct("p_a", d)
    \/ \E p \in Values, k \in CycKinds, n \in Backings :
            RegisterProtocolResourceAct(p, k, n)
    \/ \E p \in CtxIds : NewVariableContextAct(p)
    \/ \E p \in CtxIds, v \in Values : StdWithValueAct(p, v)
    \/ \E c \in CtxIds, n \in CycNames : GetReturnsAct(c, n)
    \/ \E c \in CtxIds, n \in CycNames : GetOverflowAct(c, n)

SpecCyc == InitCyc /\ [][NextCyc]_vars

\* ------------------------------------------------ resources of protocols
\* The runs of the protocol resources of two protocols of which one name
\* starts with the other, each with the kinds "k" and "ak": api.ProtocolName
\* and api.ProtocolResourceName are string types of any content.
KeyProtocols == {"p", "pa"}
KeyKinds == {"k", "ak"}
KeyDescs == {6}

InitKey == Start({"Resolve"})

NextKey ==
    \/ \E d \in KeyDescs : RegisterAct(d)
    \/ \E p \in KeyProtocols, k \in KeyKinds, n \in Backings :
            RegisterProtocolResourceAct(p, k, n)
    \/ \E p \in CtxIds, v \in KeyProtocols : StdWithValueAct(p, v)
    \/ \E c \in CtxIds, k \in KeyKinds : GetProtocolResourceAct(c, k, <<>>)

SpecKey == InitKey /\ [][NextKey]_vars

\* ------------------------------------------------------------------ helpers
\* The slots a context reads and writes, in the arrays arrs.
SlotsIn(arrs, c) == IF KeyVariables(c) = 0 THEN <<>> ELSE arrs[KeyVariables(c)]
SlotsOf(c) == SlotsIn(arrays, c)

\* c was made by NewVariableContext(p).
ChildOf(c, p) ==
    c # 0 /\ ctxs[c].made = "NewVariableContext" /\ ctxs[c].parent = p

\* c and q are a parent and its child, or two children of one parent.
Forked(c, q) ==
    \/ ChildOf(c, q)
    \/ ChildOf(q, c)
    \/ c # q /\ \E p \in CtxIds : ChildOf(c, p) /\ ChildOf(q, p)

\* The outcomes of the Get calls and of the Set calls the program can make
\* on context c in the current state: what GetNameAct, GetVarAct, SetNameAct
\* and SetVarAct apply.
GetOutcomes(c) ==
    {getByName(arrays, value, c, n) : n \in Names}
        \cup {getByVariable(arrays, value, c, d) : d \in DescIds}

SetOutcomes(c) ==
    {setByName(arrays, value, c, n, x) : n \in Names, x \in Values}
        \cup {setByVariable(arrays, value, c, d, x) : d \in DescIds, x \in Values}

\* ------------------------------------------------------------------- claims
\* C1: a Get or Set call on a context leaves every slot (data and Valid) of
\* its NewVariableContext parent, of its NewVariableContext children and of
\* the other children of its parent unchanged.
C1_ForkIsolation ==
    \A c \in CtxIds : \A o \in GetOutcomes(c) \cup SetOutcomes(c) :
        \A q \in CtxIds : Forked(c, q) => SlotsIn(o.arrays, q) = SlotsOf(q)

\* C1 witness: a parent carrying a slot array with two children, after a Set
\* on one child made its slot valid while the same slot of the parent and of
\* the other child stayed invalid.
C1_Witness ==
    /\ ret.op = "Set"
    /\ \E p, c, c2 \in CtxIds :
          /\ c # c2 /\ ChildOf(c, p) /\ ChildOf(c2, p)
          /\ KeyVariables(p) # 0
          /\ \E i \in 1..Len(SlotsOf(p)) :
                /\ i <= Len(SlotsOf(c)) /\ i <= Len(SlotsOf(c2))
                /\ SlotsOf(c)[i].Valid
                /\ ~SlotsOf(p)[i].Valid
                /\ ~SlotsOf(c2)[i].Valid

\* What the caller of a Get sees: the value, the error and whether the getter
\* function ran.
Seen(o) == <<o.res, o.err, o.calls>>

\* C2: right after C = NewVariableContext(P), every slot of P is in C at the
\* same index with the same data and Valid, and for every indexed variable
\* whose index lies inside P's slot array Get on C returns what Get on P
\* returns (the cached data, without a getter call, when the slot is valid
\* in P).
C2_SnapshotAtFork ==
    ret.op = "NewVariableContext" =>
        LET c == Len(ctxs)
            p == ctxs[c].parent
        IN
        /\ \A i \in 1..Len(SlotsOf(p)) :
              i <= Len(SlotsOf(c)) /\ SlotsOf(c)[i] = SlotsOf(p)[i]
        /\ \A d \in DescIds :
              (Indexer(d) /\ index[d] < Len(SlotsOf(p))) =>
                LET oc == getByVariable(arrays, value, c, d)
                    op == getByVariable(arrays, value, p, d)
                IN
                /\ Seen(oc) = Seen(op)
                /\ SlotsOf(p)[index[d] + 1].Valid =>
                      Seen(oc) = <<SlotsOf(p)[index[d] + 1].data, NoErr, 0>>

\* C2 witness: a child just forked from a parent that holds a valid slot
\* and an invalid one.
C2_Witness ==
    /\ ret.op = "NewVariableContext"
    /\ LET p == ctxs[Len(ctxs)].parent IN
       /\ \E i \in 1..Len(SlotsOf(p)) : SlotsOf(p)[i].Valid
       /\ \E i \in 1..Len(SlotsOf(p)) : ~SlotsOf(p)[i].Valid

\* The history and the content of the slot an outcome went to, and the
\* descriptor the index table holds for it.
HistAt(cell) == hist[cell[1]][cell[2] + 1]
SlotAt(cell) == arrays[cell[1]][cell[2] + 1]
VariableAt(cell) == Descs[indexedVariables[cell[2] + 1]]

\* The Get calls on c that go to a slot whose variable has a getter function
\* and that follow a successful Get on that slot with no Set on it since.
SecondGets(c) ==
    {o \in GetOutcomes(c) :
        /\ o.cell # NoCell
        /\ VariableAt(o.cell).getter # "none"
        /\ HistAt(o.cell).get >= 0}

\* C3 as stated: of two successful Get calls with no Set in between, exactly
\* one invokes the getter function.
C3_ExactlyOnce ==
    \A c \in CtxIds : \A o \in SecondGets(c) :
        o.err = NoErr => HistAt(o.cell).get + o.calls = 1

\* C3 as amended: the second of two Get calls with no Set in between
\* succeeds, does not invoke the getter function and returns the cached slot
\* data, so the two calls invoke it at most once (once when the first call
\* found the slot invalid, not at all when it found it valid).
C3_CacheHit ==
    \A c \in CtxIds :
        /\ \A o \in SecondGets(c) :
              /\ o.err = NoErr
              /\ o.calls = 0
              /\ o.res = SlotAt(o.cell).data
              /\ o.arrays = arrays
              /\ HistAt(o.cell).get + o.calls <= 1
        /\ \A o \in GetOutcomes(c) :
              (o.cell # NoCell /\ o.err = NoErr) =>
                o.calls = IF SlotAt(o.cell).Valid THEN 0 ELSE 1

\* C3 witness: in a context made from Background, a second Get in a row
\* has just returned the data the getter function produced for the first.
C3_Witness ==
    /\ ret.op = "Get" /\ ret.err = NoErr /\ ret.calls = 0
    /\ \E c \in CtxIds : \E o \in SecondGets(c) :
          /\ ctxs[o.cell[1]].parent = 0
          /\ HistAt(o.cell) = History("none", 0, FALSE)
          /\ SlotAt(o.cell) = IndexedValue(ret.res, TRUE)

\* The contexts that read and write slot array a.
Readers(a) == {c \in CtxIds : KeyVariables(c) = a}

\* C4: while the latest Set on a slot is one that succeeded through
\* DefaultSetter with value x, the slot holds x and is valid, and every Get
\* of a variable of that index, by reference or by name, on a context of
\* that slot array returns x without invoking a getter function.
C4_SetOverridesCache ==
    \A a \in 1..Len(arrays) : \A i \in 1..Len(arrays[a]) :
        hist[a][i].set # "none" =>
          /\ arrays[a][i] = IndexedValue(hist[a][i].set, TRUE)
          /\ \A c \in Readers(a) :
                /\ \A d \in DescIds :
                      (Indexer(d) /\ index[d] = i - 1) =>
                        Seen(getByVariable(arrays, value, c, d))
                            = <<hist[a][i].set, NoErr, 0>>
                /\ \A n \in Names :
                      (variables[n] # 0 /\ Indexer(variables[n])
                            /\ index[variables[n]] = i - 1) =>
                        Seen(getByName(arrays, value, c, n))
                            = <<hist[a][i].set, NoErr, 0>>

\* C4 witness: a Get has just returned the value of the latest Set on a slot
\* whose variable has a getter function that would have produced another
\* value.
C4_Witness ==
    /\ ret.op = "Get" /\ ret.err = NoErr /\ ret.calls = 0
    /\ \E a \in 1..Len(arrays) : \E i \in 1..Len(arrays[a]) :
          /\ hist[a][i] = History(ret.res, 0, FALSE)
          /\ VariableAt(<<a, i - 1>>).getter = "env"
          /\ VariableAt(<<a, i - 1>>).setter = "default"
          /\ value # ret.res

\* Override(d) replaces an Indexer by an Indexer.
Reindexes(d) ==
    /\ variables[Descs[d].name] # 0
    /\ Indexer(variables[Descs[d].name])
    /\ Indexer(d)

\* A value x set on context c through reference w is read back through
\* reference r: the Get through r goes to the slot the Set went to and
\* returns what the Get through w returns, which is x when the setter that
\* ran stored x (DefaultSetter in the slot, so that no getter function runs;
\* the "ext" closure in the captured variable its getter function returns).
ReadBack(c, w, r, x) ==
    LET s == setByVariable(arrays, value, c, w, x) IN
    s.err = NoErr =>
        LET g == getByVariable(s.arrays, s.value, c, r)
            h == getByVariable(s.arrays, s.value, c, w)
        IN
        /\ g.cell = s.cell
        /\ g.err = NoErr
        /\ Seen(g) = Seen(h)
        /\ g.arrays = h.arrays
        /\ s.setter = "default" => Seen(g) = <<x, NoErr, 0>>
        /\ s.setter = "ext" => Seen(g) = <<x, NoErr, 1>>

\* C5: Override of an Indexer v1 by an Indexer v2 of the same name succeeds,
\* gives v2 the index of v1, leaves v1's index and the length of the index
\* table unchanged and puts v2 in v1's place in the table; right after it, in
\* every context, a value set through v2 is read back through v1 and a value
\* set through v1 is read back through v2.
C5_OverrideKeepsIndex ==
    /\ \A d \in DescIds :
          Reindexes(d) =>
            LET v1 == variables[Descs[d].name]
                r == Override(d)
            IN
            /\ r.err = NoErr
            /\ r.variables[Descs[d].name] = d
            /\ r.index[d] = index[v1]
            /\ r.index[v1] = index[v1]
            /\ Len(r.indexedVariables) = Len(indexedVariables)
            /\ r.indexedVariables[index[v1] + 1] = d
    /\ (ret.op = "Override" /\ ret.old # 0) =>
          LET v1 == ret.old
              v2 == variables[Descs[v1].name]
          IN
          (Indexer(v1) /\ Indexer(v2)) =>
            /\ index[v1] = index[v2]
            /\ \A c \in CtxIds : \A x \in Values :
                  ReadBack(c, v2, v1, x) /\ ReadBack(c, v1, v2, x)

\* C5 witness: Override has just put an Indexer in the place of another
\* Indexer of the same name, at an index other than 0, and a context holds a
\* slot of that index on which a Set through the new reference succeeds.
C5_Witness ==
    /\ ret.op = "Override" /\ ret.err = NoErr /\ ret.old # 0
    /\ LET v1 == ret.old
           v2 == variables[Descs[ret.old].name]
       IN
       /\ v1 # v2 /\ Indexer(v1) /\ Indexer(v2)
       /\ index[v2] = 1
       /\ \E c \in CtxIds : \E x \in Values :
             setByVariable(arrays, value, c, v2, x).err = NoErr

\* The Get calls that follow a Set outcome s: Get of the variable of the
\* slot s went to, on the contexts that read that slot array.
GetsAfter(s) ==
    {getFlushedValue(s.arrays, s.value, c, s.cell[2]) : c \in Readers(s.cell[1])}

\* The slot is the one of the variable registered under the name of its
\* index-table entry.
Registered(cell) ==
    LET v == variables[VariableAt(cell).name] IN
    v # 0 /\ Indexer(v) /\ index[v] = cell[2]

\* C6: a Set whose setter function does not write the slot leaves the slot
\* invalid, and the next Get of the variable invokes the getter function and
\* returns what it produces, not the data cached before the Set; the Get a
\* setter function issues on the variable being set (the registered variable
\* of the slot) goes to the getter function, never to the cached data.
C6_InvalidateBeforeSetter ==
    \A c \in CtxIds : \A s \in SetOutcomes(c) :
        s.cell # NoCell =>
          /\ s.setter = "ext" =>
                /\ s.arrays = [arrays EXCEPT ![s.cell[1]][s.cell[2] + 1].Valid = FALSE]
                /\ \A g \in GetsAfter(s) : Seen(g) = <<s.value, NoErr, 1>>
          /\ (s.setter = "reget" /\ Registered(s.cell)) =>
                /\ s.icell = s.cell
                /\ s.inner = "miss"
                /\ s.calls = 1

\* C6 witness: a Set through a setter function that leaves the slot alone
\* has just run on a slot that held a cached value: the slot keeps the old
\* data, marked invalid, and the captured variable holds the new value.
C6_Witness ==
    /\ ret.op = "Set" /\ ret.err = NoErr
    /\ \E a \in 1..Len(arrays) : \E i \in 1..Len(arrays[a]) :
          /\ arrays[a][i] = IndexedValue("p", FALSE)
          /\ VariableAt(<<a, i - 1>>).setter = "ext"
          /\ hist[a][i] = History("none", -1, FALSE)
          /\ value = "q"

\* C7: a slot that was created invalid and has seen neither a Set nor a
\* successful Get is invalid, and while its variable has a setter function
\* and no getter function every Get that goes to it fails with ValueNotFound
\* naming the variable, invokes nothing and leaves the slot arrays as they
\* are.
C7_ReadBeforeWrite ==
    /\ \A a \in 1..Len(arrays) : \A i \in 1..Len(arrays[a]) :
          hist[a][i].fresh => ~arrays[a][i].Valid
    /\ \A c \in CtxIds : \A o \in GetOutcomes(c) :
          (o.cell # NoCell /\ HistAt(o.cell).fresh
                /\ VariableAt(o.cell).getter = "none") =>
            /\ VariableAt(o.cell).setter # "none"
            /\ o.err = Err("ValueNotFound", VariableAt(o.cell).name)
            /\ o.res = Nil
            /\ o.calls = 0
            /\ ~o.arrays[o.cell[1]][o.cell[2] + 1].Valid
            /\ o.arrays = arrays
            /\ AfterGet(o) = hist

\* C7 witness: a Get has just failed with ValueNotFound on a context made
\* from Background whose slot for the variable is still fresh.
C7_Witness ==
    /\ ret.op = "Get" /\ ret.err = Err("ValueNotFound", "a")
    /\ \E c \in CtxIds : \E o \in GetOutcomes(c) :
          /\ o.cell # NoCell
          /\ ctxs[o.cell[1]].parent = 0
          /\ HistAt(o.cell).fresh
          /\ VariableAt(o.cell) = NewVariable("a", "none", "default")
          /\ o.err = ret.err

\* C8: Get of a variable built without a setter function, by reference or by
\* name, on any context (with or without a slot array), succeeds, invokes
\* the getter function, returns the ambient payload of that context, goes to
\* no slot and changes no slot array, so what Get returns on any other
\* context stays what it was.
C8_GetterOnlyNeverCached ==
    \A c \in CtxIds : \A d \in DescIds :
        (~Indexer(d) /\ Descs[d].getter = "ambient") =>
          LET o == getByVariable(arrays, value, c, d)
              n == getByName(arrays, value, c, Descs[d].name)
          IN
          /\ Seen(o) = <<Payload(c), NoErr, 1>>
          /\ o.cell = NoCell
          /\ o.arrays = arrays
          /\ o.value = value
          /\ variables[Descs[d].name] = d => n = o
          /\ \A q \in CtxIds :
                Seen(getByVariable(o.arrays, o.value, q, d)) = <<Payload(q), NoErr, 1>>

\* C8 witness: a Get on a context derived from a parent with another
\* payload, neither carrying a slot array, has just returned the derived
\* context's payload through the registered getter-only variable.
C8_Witness ==
    /\ ret.op = "Get" /\ ret.err = NoErr /\ ret.calls = 1
    /\ \E n \in Names : variables[n] # 0 /\ ~Indexer(variables[n])
    /\ \E c \in CtxIds :
          /\ c # 0 /\ KeyVariables(c) = 0
          /\ Payload(c) = ret.res
          /\ ctxs[c].parent # 0
          /\ Payload(ctxs[c].parent) \in Values \ {ret.res}

\* Register(d) finds the name of d in the name map.
Duplicate(d) == variables[Descs[d].name] # 0

\* C9: Register of a variable whose name is in the name map leaves the name
\* map, the index table and the index of every variable, the rejected one
\* included, as they are.
C9_FirstRegistrantWins ==
    \A d \in DescIds :
        Duplicate(d) =>
          /\ Register(d).variables = variables
          /\ Register(d).indexedVariables = indexedVariables
          /\ Register(d).index = index

\* C9 witness: a Register has just been rejected for a name whose variable
\* sits at index 1 of a two-entry index table.
C9_Witness ==
    /\ ret.op = "Register" /\ ret.err.kind = "VariableDuplicated"
    /\ Len(indexedVariables) = 2
    /\ variables[ret.err.name] = indexedVariables[2]
    /\ index[indexedVariables[2]] = 1
    /\ \E d \in DescIds :
          /\ Descs[d].name = ret.err.name /\ d # variables[ret.err.name]
          /\ Indexer(d) /\ index[d] = 0

\* C10 as stated: Register of a variable whose name is in the name map
\* returns no error.
C10_DuplicateIsSuccess ==
    \A d \in DescIds : Duplicate(d) => Register(d).err = NoErr

\* C10 as amended: Register of a variable whose name is in the name map
\* returns the duplicate-registration error naming the variable (and changes
\* nothing); a Register that returns no error has installed its variable.
C10_DuplicateIsError ==
    /\ \A d \in DescIds :
          /\ Duplicate(d) =>
                /\ Register(d).err = Err("VariableDuplicated", Descs[d].name)
                /\ Register(d).variables = variables
          /\ ~Duplicate(d) =>
                /\ Register(d).err = NoErr
                /\ Register(d).variables[Descs[d].name] = d
    /\ (ret.op = "Register" /\ ret.err # NoErr) =>
          /\ ret.err.kind = "VariableDuplicated"
          /\ variables[ret.err.name] # 0

\* C10 witness: a Register has just returned the duplicate-registration
\* error for a name held by a getter-only variable.
C10_Witness ==
    /\ ret.op = "Register"
    /\ ret.err = Err("VariableDuplicated", "b")
    /\ variables["b"] # 0 /\ ~Indexer(variables["b"])

\* C11: Override of a variable whose name is not in the name map returns
\* errVariableNotRegister naming it and hands back the name map, the index
\* table and the indices as they are; OverridePrefix of a prefix that is not
\* in the prefix map returns errPrefixNotRegister naming it and hands back
\* the prefix map as it is; and a step in which either call fails changes
\* none of the name map, the prefix map, the index table and the indices.
C11_OverrideAbsentFails ==
    /\ [](/\ \A d \in DescIds :
                variables[Descs[d].name] = 0 =>
                    Override(d) = Registry(variables, indexedVariables, index,
                                           Err("VariableNotRegister", Descs[d].name), 0)
          /\ \A m \in Prefixes : \A d \in DescIds :
                prefixVariables[m] = 0 =>
                    OverridePrefix(m, d) =
                        Table(prefixVariables, Err("PrefixNotRegister", m)))
    /\ [][(ret'.op \in {"Override", "OverridePrefix"} /\ ret'.err # NoErr) =>
            /\ ret'.err.kind =
                 IF ret'.op = "Override" THEN "VariableNotRegister"
                 ELSE "PrefixNotRegister"
            /\ UNCHANGED <<variables, prefixVariables, indexedVariables, index>>]_vars

\* C11 witness: an Override has just been rejected for an absent name while
\* another name and a prefix are registered and another prefix is absent.
C11_Witness ==
    /\ ret.op = "Override"
    /\ ret.err = Err("VariableNotRegister", "a")
    /\ variables["a"] = 0 /\ variables["p_a"] # 0
    /\ prefixVariables["a"] # 0 /\ prefixVariables["p_a"] = 0

\* The protocol-resource adapter answers for name on context c.
Adapted(c, name) ==
    GetProtocolResource(arrays, value, c, name, <<>>).err = NoErr

\* C12: Get by name answers from the exact-match map when the name is in it,
\* whether or not a registered prefix matches the name; else from the getter
\* of a matching prefix variable, run on the requested name; else from the
\* protocol-resource adapter when it answers; and else fails with
\* UndefinedVariable naming the requested name, as Check does for every name
\* that is neither in the exact-match map nor matched by a prefix.
C12_ResolutionOrder ==
    \A name \in Asked :
        /\ \A c \in CtxIds :
              LET o == getByName(arrays, value, c, name) IN
              /\ Entry(variables, name) # 0 =>
                    o = getByVariable(arrays, value, c, variables[name])
              /\ (Entry(variables, name) = 0 /\ Matching(name) # {}) =>
                    \E m \in Matching(name) :
                        /\ Seen(o) = Seen(getterImplGet(prefixVariables[m], c,
                                                        value, name))
                        /\ o.cell = NoCell /\ o.arrays = arrays
              /\ (Entry(variables, name) = 0 /\ Matching(name) = {}) =>
                    IF Adapted(c, name)
                    THEN o = GetProtocolResource(arrays, value, c, name, <<>>)
                    ELSE /\ o.err = Err("UndefinedVariable", name)
                         /\ o.res = EmptyString
                         /\ o.arrays = arrays
        /\ Entry(variables, name) # 0 => Check(name).err = NoErr
        /\ (Entry(variables, name) = 0 /\ Matching(name) = {}) =>
              Check(name) = [variable |-> 0, err |-> Err("UndefinedVariable", name)]

\* C12 witness: a Get has just returned the value of an exact-match variable
\* whose name is also a registered prefix, on a context where that name is
\* answered by the exact-match map (not by the prefix variable, which would
\* have echoed the name), a second name by the prefix only, a third by the
\* adapter only and a fourth by nothing.
C12_Witness ==
    /\ ret.op = "Get" /\ ret.err = NoErr /\ ret.res = value
    /\ Entry(variables, "p_a") # 0 /\ prefixVariables["p_a"] # 0
    /\ \E c \in CtxIds :
          /\ Seen(getByName(arrays, value, c, "p_a")) = <<value, NoErr, 1>>
          /\ Seen(getByName(arrays, value, c, "p_ax")) = <<"p_ax", NoErr, 1>>
          /\ Adapted(c, "k")
          /\ Seen(getByName(arrays, value, c, "k")) = <<value, NoErr, 1>>
          /\ getByName(arrays, value, c, "zz").err = Err("UndefinedVariable", "zz")

\* A Set call was rejected with errSupportIndexedOnly: it reached no slot,
\* ran no setter function and left the slot arrays and the captured variable
\* as they are.
Unsupported(o) ==
    /\ o.err = Err("SupportIndexedOnly", "")
    /\ o.cell = NoCell /\ o.setter = "none" /\ o.calls = 0
    /\ o.arrays = arrays /\ o.value = value

\* C13: on every context, Set and SetString of a variable built without a
\* setter function are rejected with errSupportIndexedOnly when the variable
\* is addressed by reference and when it is addressed by the name it is
\* registered under, as is Set by a name that is not in the exact-match map
\* (a name only a prefix variable matches included); no slot changes.
C13_OnlyIndexedSettable ==
    \A c \in CtxIds : \A x \in Values \cup {Nil} :
        /\ \A d \in DescIds :
              ~Indexer(d) =>
                /\ Unsupported(SetAny(arrays, value, c, ByVariable(d), x))
                /\ Unsupported(SetString(arrays, value, c, ByVariable(d), x))
        /\ \A name \in Asked \cup Names :
              (Entry(variables, name) = 0 \/ ~Indexer(Entry(variables, name))) =>
                /\ Unsupported(SetAny(arrays, value, c, ByName(name), x))
                /\ Unsupported(SetString(arrays, value, c, ByName(name), x))

\* C13 witness: a Set has just been rejected with errSupportIndexedOnly while
\* a context holds a slot array, a name that only a prefix variable matches
\* is readable and not settable there, and a variable without a setter
\* function is registered.
C13_Witness ==
    /\ ret.op = "Set" /\ ret.err = Err("SupportIndexedOnly", "")
    /\ prefixVariables["a"] # 0
    /\ \E n \in Names : variables[n] # 0 /\ ~Indexer(variables[n])
    /\ \E c \in CtxIds :
          /\ Len(SlotsOf(c)) > 0
          /\ Entry(variables, "ax") = 0 /\ Matching("ax") # {}
          /\ getByName(arrays, value, c, "ax").err = NoErr
          /\ Unsupported(SetAny(arrays, value, c, ByName("ax"), "q"))

\* What Set can be handed as its second argument and as its value.
AnyTarget == {ByName(n) : n \in Asked \cup Names} \cup {ByVariable(d) : d \in DescIds}
AnyValue == Values \cup {Nil}

\* The Set calls on context c that reached a slot and returned an error.
FailedSets(c) ==
    {s \in {SetAny(arrays, value, c, i, x) : i \in AnyTarget, x \in AnyValue} :
        s.cell # NoCell /\ s.err # NoErr}

\* C14: when a Set that reached a slot returns an error (the setter function
\* failed without writing the slot, or a string setter was given a value
\* that is not a string), the slot is invalid afterwards with the data it
\* had, and the next Get of that slot on any context of the slot array goes
\* to the getter function: it does not return the cached data.
C14_FailedSetInvalidates ==
    \A c \in CtxIds : \A s \in FailedSets(c) :
        /\ s.err \in {Err("SetterFailed", ""), Err("ValueNotString", "")}
        /\ s.arrays = [arrays EXCEPT ![s.cell[1]][s.cell[2] + 1].Valid = FALSE]
        /\ \A g \in GetsAfter(s) :
              /\ g.calls = 1
              /\ g.err = NoErr => g.arrays[s.cell[1]][s.cell[2] + 1].Valid

\* C14 witness: a Set of a non-string value through a string setter has just
\* failed on a slot that held a cached value: the slot keeps the data and is
\* invalid.
C14_Witness ==
    /\ ret.op = "Set" /\ ret.err = Err("ValueNotString", "")
    /\ \E a \in 1..Len(arrays) : \E i \in 1..Len(arrays[a]) :
          /\ arrays[a][i] = IndexedValue("q", FALSE)
          /\ VariableAt(<<a, i - 1>>).setter = "string"
          /\ hist[a][i].get = -1

\* The Get calls on context c that reached a slot and whose getter function
\* failed.
FailedGets(c) ==
    {o \in {GetAny(arrays, value, c, i) : i \in AnyTarget} :
        o.cell # NoCell /\ o.calls = 1 /\ o.err # NoErr}

\* The Get of the slot an outcome o went to, on context q.
Retry(o, q) == getFlushedValue(o.arrays, o.value, q, o.cell[2])

\* C15: when the getter function of an indexed variable fails, Get returns
\* the getter's error, the slot was invalid and stays invalid with its data,
\* and the next Get of the slot on any context of the slot array invokes the
\* getter function again; when that one succeeds the slot is valid with the
\* value and the Get after it returns the value without a getter call.
C15_NoNegativeCaching ==
    \A c \in CtxIds : \A o \in FailedGets(c) :
        /\ o.err = getterGet(indexedVariables[o.cell[2] + 1], c, value).err
        /\ ~SlotAt(o.cell).Valid
        /\ o.arrays = arrays
        /\ \A q \in Readers(o.cell[1]) :
              LET g == Retry(o, q) IN
              /\ g.calls = 1
              /\ g.err # NoErr => g.arrays = arrays
              /\ g.err = NoErr =>
                    /\ g.arrays[o.cell[1]][o.cell[2] + 1] = IndexedValue(g.res, TRUE)
                    /\ \A r \in Readers(o.cell[1]) :
                          Seen(Retry(g, r)) = <<g.res, NoErr, 0>>

\* C15 witness: a Get has just failed in the getter function on a slot that
\* is still invalid, and the slot array has another context on which the
\* same Get succeeds.
C15_Witness ==
    /\ ret.op = "Get" /\ ret.err = Err("GetterFailed", "") /\ ret.calls = 1
    /\ \E c \in CtxIds : \E o \in FailedGets(c) :
          /\ ~SlotAt(o.cell).Valid
          /\ \E q \in Readers(o.cell[1]) : Retry(o, q).err = NoErr

\* The ways a registered variable is addressed: by the name it is registered
\* under and by direct reference.
RegisteredTargets ==
    UNION {{ByName(Descs[d].name), ByVariable(d)} :
              d \in {e \in DescIds : Entry(variables, Descs[e].name) = e}}

\* C16 as stated: Get, Set, GetString and SetString of a registered
\* variable, indexed or not, by name or by reference, called with a nil
\* context return errInvalidContext.
C16_NilContextRejected ==
    \A i \in RegisteredTargets : \A x \in Values :
        /\ GetAny(arrays, value, NilCtx, i).err = Err("InvalidContext", "")
        /\ GetString(arrays, value, NilCtx, i).err = Err("InvalidContext", "")
        /\ SetAny(arrays, value, NilCtx, i, x).err = Err("InvalidContext", "")
        /\ SetString(arrays, value, NilCtx, i, x).err = Err("InvalidContext", "")

\* A call was rejected with errNoVariablesInContext: it reached no slot, ran
\* neither a getter nor a setter function and left the slot arrays and the
\* captured variable as they are.
NoVariables(o) ==
    /\ o.err = Err("NoVariablesInContext", "")
    /\ o.cell = NoCell /\ o.icell = NoCell
    /\ o.calls = 0 /\ o.setter = "none" /\ o.inner = "none"
    /\ o.arrays = arrays /\ o.value = value

\* C17: on a context that resolves to no slot array (Background, or a
\* wrapper of it that NewVariableContext did not make), Get and Set of an
\* indexed variable, by reference and by the name it is registered under,
\* fail with errNoVariablesInContext, run neither a getter nor a setter
\* function and change nothing; Get returns the empty string beside it.
C17_NoVariablesInContext ==
    \A c \in CtxIds :
        KeyVariables(c) = 0 =>
            /\ \A d \in DescIds : \A x \in Values :
                  Indexer(d) =>
                    /\ NoVariables(getByVariable(arrays, value, c, d))
                    /\ getByVariable(arrays, value, c, d).res = EmptyString
                    /\ NoVariables(setByVariable(arrays, value, c, d, x))
            /\ \A n \in Names : \A x \in Values :
                  (variables[n] # 0 /\ Indexer(variables[n])) =>
                    /\ NoVariables(getByName(arrays, value, c, n))
                    /\ getByName(arrays, value, c, n).res = EmptyString
                    /\ NoVariables(setByName(arrays, value, c, n, x))

\* C17 witness: a Get of an indexed variable that has a getter function has
\* just failed with errNoVariablesInContext on a wrapper of Background while
\* another context holds a slot for the variable.
C17_Witness ==
    /\ ret.op = "Get" /\ ret.err = Err("NoVariablesInContext", "")
    /\ \E c, q \in CtxIds : \E n \in Names :
          /\ c # 0 /\ KeyVariables(c) = 0 /\ ctxs[c].made = "WithValue"
          /\ KeyVariables(q) # 0 /\ Len(SlotsOf(q)) > 0
          /\ variables[n] # 0 /\ Indexer(variables[n])
          /\ Descs[variables[n]].getter = "env"
          /\ NoVariables(getByName(arrays, value, c, n))

\* C18: while GetProtocol is not set, GetProtocolResource fails with
\* errNoGetProtocol on every context, for every resource name and with or
\* without a suffix, whatever is registered, and changes nothing; and Get by
\* a name that is neither in the exact-match map nor matched by a prefix
\* fails with UndefinedVariable naming it.
C18_NoResolver ==
    GetProtocol = Nil =>
        /\ ret.op = "GetProtocolResource" => ret.err = Err("NoGetProtocol", "")
        /\ \A c \in CtxIds : \A name \in Asked :
              /\ \A data \in Data :
                    GetProtocolResource(arrays, value, c, name, data) =
                        Outcome(arrays, value, EmptyString,
                                Err("NoGetProtocol", ""), 0, "none")
              /\ (Entry(variables, name) = 0 /\ Matching(name) = {}) =>
                    /\ getByName(arrays, value, c, name).err =
                          Err("UndefinedVariable", name)
                    /\ getByName(arrays, value, c, name).arrays = arrays

\* C18 witness: with no resolver set, GetProtocolResource has just failed
\* with errNoGetProtocol although a resource of a protocol is mapped to a
\* registered variable and a context carries that protocol.
C18_Witness ==
    /\ GetProtocol = Nil
    /\ ret.op = "GetProtocolResource" /\ ret.err = Err("NoGetProtocol", "")
    /\ \E c \in CtxIds : \E k \in Kinds :
          /\ IsString(Payload(c))
          /\ convert(Payload(c), k) \in DOMAIN protocolVar
          /\ Entry(variables, protocolVar[convert(Payload(c), k)]) # 0
          /\ getByName(arrays, value, c, k).err = Err("UndefinedVariable", k)

\* C19: with a resolver set, GetProtocolResource on a context whose protocol
\* the resolver cannot tell returns the resolver's error; on a context whose
\* protocol has no mapping for the resource it fails with
\* errUnregisterProtocolResource naming that protocol, whether or not another
\* protocol has a mapping for the resource; either way nothing changes.
C19_PerProtocolMapping ==
    GetProtocol # Nil =>
        \A c \in CtxIds : \A name \in Asked : \A data \in Data :
            LET o == GetProtocolResource(arrays, value, c, name, data) IN
            /\ Resolve(c).err # NoErr =>
                  o = Outcome(arrays, value, EmptyString, Resolve(c).err, 0, "none")
            /\ (Resolve(c).err = NoErr
                    /\ convert(Resolve(c).p, name) \notin DOMAIN protocolVar) =>
                  o = Outcome(arrays, value, EmptyString,
                              Err("UnregisterProtocolResource", Resolve(c).p),
                              0, "none")

\* C19 witness: GetProtocolResource has just failed with
\* errUnregisterProtocolResource naming the protocol of its context while
\* another protocol has a mapping for the same resource, and on a further
\* context the resolver fails.
C19_Witness ==
    /\ GetProtocol # Nil
    /\ ret.op = "GetProtocolResource"
    /\ \E c, q \in CtxIds : \E k \in Kinds : \E p \in Values :
          /\ IsString(Payload(c)) /\ p # Payload(c)
          /\ convert(p, k) \in DOMAIN protocolVar
          /\ convert(Payload(c), k) \notin DOMAIN protocolVar
          /\ ret.err = Err("UnregisterProtocolResource", Payload(c))
          /\ GetProtocolResource(arrays, value, q, k, <<>>).err =
                Err("NoProtocolFound", "")

\* The name data appends to a variable name: the suffix when one is given.
Suffixed(v, data) == IF Len(data) = 1 THEN v \o data[1] ELSE v

\* The contexts, resources and backing names of the mappings in force: the
\* protocol of c has a mapping for kind k, registered with backing name n
\* (every mapping is registered with the one name of Backings).
Mapped(c, k, n) ==
    /\ GetProtocol # Nil
    /\ Resolve(c).err = NoErr
    /\ convert(Resolve(c).p, k) \in DOMAIN protocolVar
    /\ n \in Backings

C21_CheckLookup ==
    /\ [](\A name \in Asked :
            /\ Entry(variables, name) # 0 =>
                  Check(name) = [variable |-> variables[name], err |-> NoErr]
            /\ (Entry(variables, name) = 0 /\ Matching(name) # {}) =>
                  /\ Check(name).err = NoErr
                  /\ \E m \in Matching(name) :
                        Check(name).variable = prefixVariables[m]
            /\ (Entry(variables, name) = 0 /\ Matching(name) = {}) =>
                  Check(name) =
                      [variable |-> 0, err |-> Err("UndefinedVariable", name)])
    /\ [][ret'.op = "Check" =>
            /\ ret'.err \in {NoErr} \cup {Err("UndefinedVariable", n) : n \in Asked}
            /\ UNCHANGED <<variables, prefixVariables, indexedVariables, index,
                           protocolVar, arrays>>]_vars

\* C21 witness: Check has just failed with UndefinedVariable for a name that
\* a context reads through the protocol-resource adapter, while Check finds
\* another name in the exact-match map and a third through a prefix.
C21_Witness ==
    /\ ret.op = "Check" /\ ret.err = Err("UndefinedVariable", "k")
    /\ \E c \in CtxIds : Adapted(c, "k")
    /\ Check("p_a") = [variable |-> variables["p_a"], err |-> NoErr]
    /\ variables["p_a"] # 0
    /\ Check("ax").err = NoErr /\ Check("ax").variable = prefixVariables["a"]

\* C22: RegisterPrefix of a prefix that is in the prefix map leaves the map
\* as it is (the first variable stays) and of an absent prefix enters the
\* variable; OverridePrefix of a prefix that is in the map puts the variable
\* in the place of the old one and leaves the other prefixes alone; and a
\* step of either leaves the name map, the index table and the index of
\* every variable as they are.
C22_PrefixRegistration ==
    /\ [](\A m \in Prefixes : \A d \in DescIds :
            /\ prefixVariables[m] # 0 =>
                  /\ RegisterPrefix(m, d).map = prefixVariables
                  /\ OverridePrefix(m, d) =
                        Table([prefixVariables EXCEPT ![m] = d], NoErr)
            /\ prefixVariables[m] = 0 =>
                  RegisterPrefix(m, d) =
                      Table([prefixVariables EXCEPT ![m] = d], NoErr))
    /\ [][ret'.op \in {"RegisterPrefix", "OverridePrefix"} =>
            UNCHANGED <<variables, indexedVariables, index>>]_vars

\* C22 witness: RegisterPrefix has just been rejected for a prefix held by a
\* variable built with a setter function, which has no place in the index
\* table, while the index table is not empty.
C22_Witness ==
    /\ ret.op = "RegisterPrefix" /\ ret.err = Err("PrefixDuplicated", "a")
    /\ prefixVariables["a"] # 0 /\ Indexer(prefixVariables["a"])
    /\ Len(indexedVariables) > 0
    /\ \A i \in 1..Len(indexedVariables) : indexedVariables[i] # prefixVariables["a"]
    /\ \E d \in PreVars : d # prefixVariables["a"]

\* The names only a prefix variable answers for.
PrefixMatched == {n \in PreNames : Entry(variables, n) = 0 /\ Matching(n) # {}}

\* A call reached no slot and left the slot arrays as they are.
Slotless(o) == o.cell = NoCell /\ o.icell = NoCell /\ o.arrays = arrays

\* C23 as stated: Get by a name only a prefix variable answers for, and Get
\* and Set through the variable Check returns for such a name, reach no slot
\* and leave the slot arrays as they are, whether or not the prefix variable
\* was built with a setter function.
C23_PrefixNeverTouchesSlots ==
    \A n \in PrefixMatched : \A c \in CtxIds :
        /\ Slotless(getByName(arrays, value, c, n))
        /\ Slotless(getByVariable(arrays, value, c, Check(n).variable))
        /\ \A x \in Values :
              Slotless(setByVariable(arrays, value, c, Check(n).variable, x))

\* C23 witness: a Set through the variable Check returned for a name only a
\* prefix variable answers for has just stored its value in slot 0 of the
\* context, the slot of the indexed variable registered under another name,
\* whose Get now returns that value without running its getter function.
C23_Witness ==
    /\ ret.op = "Set" /\ ret.err = NoErr
    /\ \E n \in PrefixMatched : \E c \in CtxIds :
          /\ Indexer(Check(n).variable)
          /\ \A i \in 1..Len(indexedVariables) :
                indexedVariables[i] # Check(n).variable
          /\ Len(SlotsOf(c)) > 0
          /\ SlotsOf(c)[1] = IndexedValue("q", TRUE)
          /\ hist[KeyVariables(c)][1].set = "q"
          /\ value # "q"
          /\ Seen(getByName(arrays, value, c, Descs[indexedVariables[1]].name)) =
                <<"q", NoErr, 0>>

\* C24: NewVariableContext returns no error and, for every parent, builds a
\* slot array as long as the index table: all slots invalid when the parent
\* resolves to no slot array, else the parent's slots copied over its head
\* and the slots beyond the parent's length invalid; the context it has just
\* returned resolves to such an array of its own.
C24_ArraySizedToIndexTable ==
    /\ \A p \in CtxIds :
          /\ Len(NewValues(p)) = Len(indexedVariables)
          /\ \A i \in 1..Len(indexedVariables) :
                NewValues(p)[i] =
                    IF i <= Len(SlotsOf(p)) THEN SlotsOf(p)[i] ELSE ZeroValue
          /\ KeyVariables(p) = 0 =>
                \A i \in 1..Len(indexedVariables) : NewValues(p)[i] = ZeroValue
    /\ ret.op = "NewVariableContext" =>
          /\ ret.err = NoErr
          /\ KeyVariables(Len(ctxs)) = Len(ctxs)
          /\ Len(SlotsOf(Len(ctxs))) = Len(indexedVariables)
          /\ Len(SlotsOf(ctxs[Len(ctxs)].parent)) <= Len(indexedVariables)

\* C24 witness: NewVariableContext has just returned a context with two
\* slots made from a parent with one, valid, slot: the first slot is the
\* parent's and the second is invalid.
C24_Witness ==
    /\ ret.op = "NewVariableContext"
    /\ LET c == Len(ctxs)
           p == ctxs[Len(ctxs)].parent
       IN
       /\ Len(SlotsOf(p)) = 1 /\ SlotsOf(p)[1].Valid
       /\ Len(SlotsOf(c)) = 2
       /\ SlotsOf(c)[1] = SlotsOf(p)[1]
       /\ SlotsOf(c)[2] = ZeroValue

\* What a call leaves behind: the slot arrays, the captured variable, the
\* slot it went to and the getter calls it made.
Effect(o) == <<o.arrays, o.value, o.cell, o.icell, o.calls, o.setter>>

\* C25: on every context, GetString leaves what Get with the same arguments
\* leaves, returns Get's error when Get fails and Get's value when it is a
\* string, and fails with errVariableNotString exactly when Get succeeds
\* with a value that is not a string, which stays cached in the slot Get
\* filled; SetString of a string is Set with the same arguments.
C25_TypedWrappers ==
    \A c \in CtxIds : \A i \in AnyTarget \cup {ByOther} :
        /\ LET g == GetAny(arrays, value, c, i)
               s == GetString(arrays, value, c, i)
           IN
           /\ Effect(s) = Effect(g)
           /\ g.err # NoErr => s.err = g.err
           /\ (g.err = NoErr /\ IsString(g.res)) => s.err = NoErr /\ s.res = g.res
           /\ s.err = Err("VariableNotString", "") <=>
                 (g.err = NoErr /\ ~IsString(g.res))
           /\ (s.err = Err("VariableNotString", "") /\ s.cell # NoCell) =>
                 s.arrays[s.cell[1]][s.cell[2] + 1] = IndexedValue(g.res, TRUE)
        /\ \A x \in Values :
              SetString(arrays, value, c, i, x) = SetAny(arrays, value, c, i, x)

\* C25 witness: GetString has just failed with errVariableNotString on an
\* indexed variable whose getter function produced a value that is not a
\* string, and the slot holds that value, valid.
C25_Witness ==
    /\ ret.op = "GetString" /\ ret.err = Err("VariableNotString", "")
    /\ ret.calls = 1
    /\ \E a \in 1..Len(arrays) : \E i \in 1..Len(arrays[a]) :
          /\ arrays[a][i] = IndexedValue(Nil, TRUE)
          /\ VariableAt(<<a, i - 1>>).getter = "ambient"
          /\ hist[a][i] = History("none", 1, FALSE)

\* The elements of the list up to and including the cursor.
Reached == {list[i] : i \in 1..Place(curr)}

\* C26: VisitSafe calls f exactly once, in list order, on every element that
\* is in the list when the cursor reaches it, elements appended during the
\* visit included, and never on an element removed before the cursor reached
\* it; removals from inside f, of the element being visited or of any other,
\* neither skip nor repeat the remaining elements. In every state f was
\* called at most once on an element and in list order (elements are numbered
\* in the order PushBack put them in the list); during a visit the cursor is
\* nil or in the list, the elements of the list up to the cursor are the
\* ones f was called on or is about to be, and the others were not visited
\* yet; the cursor only reaches elements then in the list, f is called on
\* the element the cursor reached; and when the call returns f was called on
\* every element in the list.
C26_VisitSafeExactlyOnce ==
    /\ [](/\ \A i, j \in 1..Len(seen) : i < j => seen[i] < seen[j]
          /\ currLocal # 0 => visiting /\ currLocal \notin Range(seen)
          /\ visiting =>
                /\ curr = 0 \/ curr \in Range(list)
                /\ Range(list) \cap Range(seen) = Reached \ {currLocal})
    /\ [][/\ currLocal' # currLocal /\ currLocal' # 0 =>
                currLocal' = curr' /\ currLocal' \in Range(list)
          /\ seen' # seen /\ seen' # <<>> => seen' = Append(seen, currLocal)
          /\ visiting /\ ~visiting' => Range(list') \subseteq Range(seen')]_vars

\* Reached: a visit of three pushed elements returned after f removed the
\* element being visited (1) and one not yet visited (3) and appended one
\* (4): f was called on 1, 2 and 4.
C26_Witness ==
    /\ ~visiting
    /\ seen = <<1, 2, 4>>
    /\ list = <<2, 4>>

\* No Bytes call has consumed a chunk and no channel of the chain is closed.
NoConsumer == stats.consumed = 0 /\ closed = {}

\* C27: the buffer chain never holds more than its capacity of unconsumed
\* chunks: with no consumer exactly Capacity Writes succeed, and a further
\* Write waits for the bounded period and then fails with ErrWriteCovered
\* without enqueuing its data. In every state the channel holds the chunks
\* written and not consumed, at most Capacity of them; with no consumer (and
\* the chain open) a Write that gets the mutex enqueues its chunk and
\* succeeds while fewer than Capacity chunks are held, and else waits,
\* leaves the channel as it is and ends with ErrWriteCovered; a Write that
\* ends with ErrWriteCovered returns 0 and has enqueued nothing.
C27_CapacityBound ==
    /\ [](/\ Len(bufferchain) <= Capacity
          /\ Len(bufferchain) = stats.written - stats.consumed
          /\ NoConsumer => stats.written <= Capacity)
    /\ [][\A w \in Writers :
            /\ NoConsumer /\ wpc[w] = "lock" /\ wpc'[w] # "lock" =>
                 IF Len(bufferchain) < Capacity
                 THEN /\ wres'[w] = Wrote(1, "nil")
                      /\ wpc'[w] = "idle"
                      /\ bufferchain' = Append(bufferchain, w)
                 ELSE /\ wpc'[w] = "wait"
                      /\ bufferchain' = bufferchain
            /\ NoConsumer /\ stats'.consumed = 0 /\ wpc[w] = "wait" /\ wpc'[w] # "wait" =>
                 /\ wres'[w] = Wrote(0, "ErrWriteCovered")
                 /\ wpc'[w] = "idle"
            /\ wres'[w] # wres[w] /\ wres'[w].err = "ErrWriteCovered" =>
                 /\ wres'[w].n = 0
                 /\ wpc[w] = "wait"
                 /\ bufferchain' = bufferchain]_vars

\* Reached: with no consumer Capacity Writes succeeded, the chain is full,
\* and one more Write ended with ErrWriteCovered.
C27_Witness ==
    /\ NoConsumer
    /\ stats.written = Capacity
    /\ stats.started = Capacity + 1
    /\ Len(bufferchain) = Capacity
    /\ \E w \in Writers : wres[w] = Wrote(0, "ErrWriteCovered") /\ wpc[w] = "idle"

\* Override(d) would put an Indexer in the place of a registered variable
\* that is none.
Promotes(d) ==
    /\ variables[Descs[d].name] # 0
    /\ ~Indexer(variables[Descs[d].name])
    /\ Indexer(d)

\* C28: Override that installs a variable with a setter over a variable
\* without one appends a fresh index: it succeeds, the new variable's index
\* is the length the index table had before the call, the table grows by
\* exactly one, by the new variable at its end, and the index of no other
\* variable changes; this is the state an Override of that kind leaves.
C28_OverrideAppendsIndex ==
    /\ \A d \in DescIds :
          Promotes(d) =>
            LET r == Override(d) IN
            /\ r.err = NoErr
            /\ r.variables = [variables EXCEPT ![Descs[d].name] = d]
            /\ r.index[d] = Len(indexedVariables)
            /\ r.indexedVariables = Append(indexedVariables, d)
            /\ \A e \in DescIds \ {d} : r.index[e] = index[e]
    /\ (ret.op = "Override" /\ ret.old # 0) =>
          LET v2 == variables[Descs[ret.old].name] IN
          (~Indexer(ret.old) /\ Indexer(v2)) =>
            /\ ret.err = NoErr
            /\ index[v2] = Len(indexedVariables) - 1
            /\ indexedVariables[Len(indexedVariables)] = v2

\* Reached: Override has just put an Indexer in the place of a variable
\* without a setter, in a table that already held an index: the new variable
\* has index 1 and the table two entries.
C28_Witness ==
    /\ ret.op = "Override" /\ ret.err = NoErr /\ ret.old # 0
    /\ ~Indexer(ret.old)
    /\ Indexer(variables[Descs[ret.old].name])
    /\ index[variables[Descs[ret.old].name]] = 1
    /\ Len(indexedVariables) = 2

\* Override(d) would put a variable without a setter in the place of a
\* registered variable.
Demotes(d) == variables[Descs[d].name] # 0 /\ ~Indexer(d)

\* C29: Override that installs a variable without a setter performs no index
\* bookkeeping: it succeeds and only the name map changes, the index table
\* (length and every entry) and every variable's index stay as they were
\* even when the replaced variable was indexed, whose slot is left to it;
\* and in the state such an Override leaves, Get by the name in any context
\* calls the new variable's getter once, returns what it returns, and reads
\* and writes no slot.
C29_OverrideWithoutSetter ==
    /\ \A d \in DescIds :
          Demotes(d) =>
            LET r == Override(d)
                v1 == variables[Descs[d].name]
            IN
            /\ r.err = NoErr
            /\ r.variables = [variables EXCEPT ![Descs[d].name] = d]
            /\ r.indexedVariables = indexedVariables
            /\ r.index = index
            /\ Indexer(v1) /\ v1 \in Range(indexedVariables) =>
                  v1 \in Range(r.indexedVariables)
    /\ (ret.op = "Override" /\ ret.old # 0) =>
          LET v2 == variables[Descs[ret.old].name] IN
          ~Indexer(v2) =>
            /\ ret.err = NoErr
            /\ \A c \in CtxIds :
                  LET g == getByName(arrays, value, c, Descs[v2].name) IN
                  /\ Slotless(g)
                  /\ Seen(g) = Seen(getterGet(v2, c, value))
                  /\ g.err = NoErr => g.calls = 1

\* Reached: Override has just put a variable without a setter in the place
\* of an Indexer of index 0, whose table entry is still there, and a context
\* holds a value in the slot of that index while Get by the name answers
\* from the new getter.
C29_Witness ==
    /\ ret.op = "Override" /\ ret.err = NoErr /\ ret.old # 0
    /\ Indexer(ret.old)
    /\ ~Indexer(variables[Descs[ret.old].name])
    /\ indexedVariables[index[ret.old] + 1] = ret.old
    /\ \E c \in CtxIds :
          /\ c # 0
          /\ getByVariable(arrays, value, c, ret.old).err = NoErr
          /\ getByName(arrays, value, c, Descs[ret.old].name).err = NoErr
          /\ getByName(arrays, value, c, Descs[ret.old].name).calls = 1

\* C30: the index space is dense and only grows: under any sequence of
\* Register, Override, RegisterPrefix and OverridePrefix the length of the
\* index table never decreases, a newly registered variable with a setter
\* gets the previous length as its index, a variable without a setter gets
\* none, and an index once assigned is reused only by Override on the same
\* name. In every state each registered Indexer is in the table at its
\* index, the table holds Indexers only, a variable without a setter has no
\* index and no table entry, and a Register that succeeds would append an
\* Indexer at index = length and leave the table alone for any other
\* variable; in every step the table keeps its entries' names, changes an
\* entry only by Override and grows by at most one, at its end; the prefix
\* operations leave the table and the indexes alone.
C30_IndexSpaceGrows ==
    /\ [](/\ \A n \in Names :
                (variables[n] # 0 /\ Indexer(variables[n])) =>
                    /\ index[variables[n]] < Len(indexedVariables)
                    /\ indexedVariables[index[variables[n]] + 1] = variables[n]
          /\ \A i \in 1..Len(indexedVariables) : Indexer(indexedVariables[i])
          /\ \A d \in DescIds :
                ~Indexer(d) => index[d] = 0 /\ d \notin Range(indexedVariables)
          /\ \A d \in DescIds :
                Register(d).err = NoErr =>
                    IF Indexer(d)
                    THEN /\ Register(d).index[d] = Len(indexedVariables)
                         /\ Register(d).indexedVariables = Append(indexedVariables, d)
                    ELSE /\ Register(d).index = index
                         /\ Register(d).indexedVariables = indexedVariables)
    /\ [][/\ Len(indexedVariables') >= Len(indexedVariables)
          /\ Len(indexedVariables') <= Len(indexedVariables) + 1
          /\ \A i \in 1..Len(indexedVariables) :
                /\ Descs[indexedVariables'[i]].name = Descs[indexedVariables[i]].name
                /\ indexedVariables'[i] # indexedVariables[i] =>
                      /\ ret'.op = "Override"
                      /\ variables'[Descs[indexedVariables[i]].name] = indexedVariables'[i]
          /\ Len(indexedVariables') > Len(indexedVariables) =>
                /\ ret'.op \in {"Register", "Override"}
                /\ index'[indexedVariables'[Len(indexedVariables')]] = Len(indexedVariables)
          /\ ret'.op \in {"RegisterPrefix", "OverridePrefix"} =>
                UNCHANGED <<indexedVariables, index>>]_vars

\* Reached: after a Register that appended index 0, a RegisterPrefix of a
\* variable built with a setter, a Register that appended index 1 and an
\* Override by a variable without a setter, the table still has its two
\* entries.
C30_Witness ==
    /\ ret.op = "Override" /\ ret.err = NoErr /\ ret.old # 0
    /\ Indexer(ret.old) /\ index[ret.old] = 1
    /\ ~Indexer(variables[Descs[ret.old].name])
    /\ Len(indexedVariables) = 2
    /\ \E m \in Prefixes : prefixVariables[m] # 0 /\ Indexer(prefixVariables[m])

\* C31: Get by a name that matches only a prefix variable invokes that
\* variable's getter with the full requested name as its data argument and
\* no slot cell, and never caches the result: in every context it runs the
\* getter function once and returns what it answers for the requested name
\* (the name itself for the getters registered here), reads and writes no
\* slot, and a second Get right after it does the same again; a step that
\* is such a Get leaves every slot array as it was.
C31_PrefixGetUncached ==
    /\ [](\A n \in PrefixMatched : \A c \in CtxIds :
            LET g == getByName(arrays, value, c, n)
                v == prefixVariables[CHOOSE m \in Matching(n) : TRUE]
            IN
            /\ Slotless(g)
            /\ Seen(g) = Seen(getterImplGet(v, c, value, n))
            /\ Descs[v].getter = "echo" => Seen(g) = <<n, NoErr, 1>>
            /\ Seen(getByName(g.arrays, g.value, c, n)) = Seen(g)
            /\ Slotless(getByName(g.arrays, g.value, c, n)))
    /\ [][(ret'.op = "Get" /\ ret'.res \in PrefixMatched) =>
            /\ ret'.calls = 1
            /\ UNCHANGED arrays]_vars

\* Reached: Get by the name "ax", which only the prefix variable of "a"
\* answers for, has just returned "ax" from the getter, the prefix variable
\* being one built with a setter function, while a context holds a slot
\* array that is not empty.
C31_Witness ==
    /\ ret.op = "Get" /\ ret.err = NoErr /\ ret.res = "ax" /\ ret.calls = 1
    /\ "ax" \in PrefixMatched
    /\ Indexer(prefixVariables["a"])
    /\ \E c \in CtxIds : c # 0 /\ Len(SlotsOf(c)) > 0

\* Every variable with a setter the name map holds has its index stamped and
\* its entry in the index table.
Whole ==
    \A n \in Names :
        (variables[n] # 0 /\ Indexer(variables[n])) =>
            /\ index[variables[n]] < Len(indexedVariables)
            /\ indexedVariables[index[variables[n]] + 1] = variables[n]

\* C32 as stated: readers are protected from registration in progress: a Get
\* or Set by name running concurrently with Register or Override never
\* observes a partially registered variable, that is a name-map entry whose
\* index has not yet been stamped or whose index-table entry has not yet
\* been written. Every step that is a Get or a Set by name is taken in a
\* state in which no registry operation is between its lock and its return
\* and every name-map entry is whole.
C32_ReadersSeeWholeVariables ==
    [][(ret'.op \in {"Get", "Set"} /\ steps' # steps /\ UNCHANGED locks) =>
            /\ mux = 0
            /\ Whole]_vars

\* Reached: Get by name has panicked on a slot index beyond the context's
\* slot array while the Register of that name was between stamping the index
\* and appending to the index table.
C32_Witness ==
    /\ ret.op = "Get" /\ ret.err = Panic
    /\ \E g \in Registrars :
          /\ rpc[g].pc = "table" /\ rpc[g].op = "Register" /\ mux = g
          /\ variables[Descs[rpc[g].d].name] = rpc[g].d
          /\ index[rpc[g].d] = Len(indexedVariables)
    /\ \E c \in CtxIds : c # 0 /\ Len(SlotsOf(c)) > 0

\* The goroutines between the lock and the return of a registry operation.
Inside == {g \in Registrars : rpc[g].pc \in {"check", "index", "table"}}

\* C33: registry writes are atomic under the lock: for any interleaving of
\* concurrent Register, Override, RegisterPrefix and OverridePrefix calls
\* the result equals some serial order of those calls; two variables with
\* distinct names never receive the same index and the assigned indices are
\* exactly 0..len(index table)-1. At most one goroutine is between the lock
\* and the return of an operation and it holds the lock; only that
\* goroutine's steps change the tables; when an operation returns, the
\* tables and the error are what the operation called alone on the tables
\* as they were when it took the lock would have left (so the calls take
\* effect one after the other, in the order of their locks); and whenever
\* the lock is free every registered variable with a setter is in the table
\* at its index, the indexes of distinct names differ, and every place of
\* the table is the index of the variable it holds unless that variable was
\* replaced under its name or entered the table again later.
C33_RegistryWritesSerial ==
    /\ [](/\ \A g \in Inside : mux = g
          /\ mux = 0 =>
                /\ Whole
                /\ \A n1, n2 \in Names :
                      (/\ n1 # n2
                       /\ variables[n1] # 0 /\ Indexer(variables[n1])
                       /\ variables[n2] # 0 /\ Indexer(variables[n2])) =>
                          index[variables[n1]] # index[variables[n2]]
                /\ \A i \in 1..Len(indexedVariables) :
                      \/ index[indexedVariables[i]] = i - 1
                      \/ variables[Descs[indexedVariables[i]].name] # indexedVariables[i]
                      \/ \E j \in (i + 1)..Len(indexedVariables) :
                            indexedVariables[j] = indexedVariables[i])
    /\ [][/\ <<variables, indexedVariables, index, prefixVariables>>' #
               <<variables, indexedVariables, index, prefixVariables>> =>
                  \E g \in Inside : mux = g /\ rpc'[g] # rpc[g]
          /\ \A g \in Inside :
                rpc'[g].pc = "idle" =>
                  /\ variables' = rpc[g].plan.variables
                  /\ indexedVariables' = rpc[g].plan.indexedVariables
                  /\ index' = rpc[g].plan.index
                  /\ prefixVariables' = rpc[g].plan.prefixVariables
                  /\ rres'[g] = rpc[g].plan.err
                  /\ mux' = 0]_vars

\* Reached: one goroutine has registered a second indexed variable, which
\* got index 1 behind the variable of another name at index 0, and the other
\* goroutine, whose call could only start after that return, holds the lock.
C33_Witness ==
    \E g, h \in Registrars :
        /\ g # h
        /\ rpc[g].pc = "idle" /\ rpc[g].plan # <<>> /\ rres[g] = NoErr
        /\ Len(indexedVariables) = 2
        /\ index[indexedVariables[1]] = 0 /\ index[indexedVariables[2]] = 1
        /\ Descs[indexedVariables[1]].name # Descs[indexedVariables[2]].name
        /\ h \in Inside /\ mux = h

\* C34: the scoped context carrier stores values in place: WithValue(ctx, k,
\* v) on a context that is already a carrier makes ctx.Value(k) return v in
\* the parent as well, whereas a context returned by Clone keeps the values
\* present at clone time; NewVariableContext therefore attaches the new slot
\* array to a clone and never replaces the slot-array reference held by the
\* parent. In every state, WithValue on a carrier returns that very carrier,
\* now holding the new slot array, and leaves every other context (its
\* clones included) as it was, while on any other context it returns a new
\* carrier; Clone of a carrier adds a carrier holding what the original
\* holds at that moment; and NewVariableContext adds one context holding a
\* new slot array and changes no context and no slot array that existed.
C34_CarrierStoresInPlace ==
    /\ [](\A c \in CtxIds, a \in SlotArrays :
            /\ Carrier(c) =>
                  /\ CarrierWithValue(c, a).ctx = c
                  /\ Len(CarrierWithValue(c, a).ctxs) = Len(ctxs)
                  /\ CarrierWithValue(c, a).ctxs[c].vars = a
                  /\ \A q \in 1..Len(ctxs) :
                        q # c => CarrierWithValue(c, a).ctxs[q] = ctxs[q]
            /\ ~Carrier(c) =>
                  /\ CarrierWithValue(c, a).ctx = Len(ctxs) + 1
                  /\ SubSeq(CarrierWithValue(c, a).ctxs, 1, Len(ctxs)) = ctxs
                  /\ CarrierWithValue(c, a).ctxs[Len(ctxs) + 1].vars = a)
    /\ [][/\ ret'.op = "mosnctx.WithValue" /\ steps' # steps =>
                \A q \in 1..Len(ctxs) : q # ret'.old => ctxs'[q] = ctxs[q]
          /\ ret'.op = "Clone" /\ steps' # steps /\ Len(ctxs') # Len(ctxs) =>
                /\ SubSeq(ctxs', 1, Len(ctxs)) = ctxs
                /\ ctxs'[Len(ctxs')].vars = ctxs[ctxs'[Len(ctxs')].parent].vars
          /\ ret'.op = "NewVariableContext" /\ steps' # steps =>
                /\ Len(ctxs') = Len(ctxs) + 1
                /\ SubSeq(ctxs', 1, Len(ctxs)) = ctxs
                /\ SubSeq(arrays', 1, Len(arrays)) = arrays
                /\ ctxs'[Len(ctxs')].vars = Len(ctxs')
                /\ ctxs'[Len(ctxs')].vars \notin {ctxs[q].vars : q \in 1..Len(ctxs)}]_vars

\* Reached: context 1 was cloned into context 2 and was the parent of the
\* NewVariableContext that made context 3, both of which left it holding its
\* own slot array; then WithValue stored the slot array of context 3 in
\* context 1 itself, and the clone still holds the array of clone time.
C34_Witness ==
    /\ ret.op = "mosnctx.WithValue" /\ ret.old = 1
    /\ Len(ctxs) = 3
    /\ ctxs[1].vars = 3
    /\ ctxs[2].made = "Clone" /\ ctxs[2].parent = 1 /\ ctxs[2].vars = 1
    /\ ctxs[3].made = "NewVariableContext" /\ ctxs[3].parent = 1

\* The registered indexed variables: the descriptors the name map holds that
\* were built with a setter.
RegisteredIndexed == {variables[n] : n \in {m \in Names : variables[m] # 0 /\ Indexer(variables[m])}}

\* C35 as stated: slot accesses stay in bounds: a Get or Set of a registered
\* indexed variable, by name or by reference, on a context created by
\* NewVariableContext accesses a slot index smaller than that context's
\* slot-array length and so never runs off the array, including for
\* variables that were registered (or given a fresh index by Override) after
\* the context was created.
C35_SlotAccessInBounds ==
    \A c \in 1..Len(ctxs) : \A d \in RegisteredIndexed :
        ctxs[c].made = "NewVariableContext" =>
            /\ index[d] < Len(SlotsOf(c))
            /\ getByName(arrays, value, c, Descs[d].name).err # Panic
            /\ getByVariable(arrays, value, c, d).err # Panic
            /\ \A x \in Values :
                  /\ setByName(arrays, value, c, Descs[d].name, x).err # Panic
                  /\ setByVariable(arrays, value, c, d, x).err # Panic

\* C35 witness: a Get by name of a registered indexed variable on a context
\* made by NewVariableContext has just run off the slot array: the variable
\* was registered after the context was made, so its index is not below the
\* length of the context's array.
C35_Witness ==
    /\ ret.op = "Get" /\ ret.err = Panic
    /\ \E c \in 1..Len(ctxs) : \E d \in RegisteredIndexed :
          /\ ctxs[c].made = "NewVariableContext"
          /\ index[d] >= Len(SlotsOf(c))
          /\ indexedVariables[index[d] + 1] = d
          /\ getByName(arrays, value, c, Descs[d].name).err = Panic

\* C36 as stated: Get by name always terminates: for every content of the
\* name map, prefix map and protocol-resource table, resolving a name on any
\* context follows only finitely many indirections through the
\* protocol-resource adapter before returning a value or an error.
C36_GetByNameTerminates ==
    \A c \in CtxIds : \A name \in CycNames : Terminates(c, name)

\* C36 witness: a Get by name has just ended in the stack overflow: on some
\* context the protocol-resource table maps the context's protocol and a
\* name, which is in neither the name map nor the prefix map, to that very
\* name, so that Get of the name calls Get of the name.
C36_Witness ==
    /\ ret.op = "Get" /\ ret.err.kind = "stack overflow"
    /\ \E c \in CtxIds :
          /\ Forwarded(c, ret.err.name) = ret.err.name
          /\ Entry(variables, ret.err.name) = 0
          /\ Matching(ret.err.name) = {}
          /\ ~Terminates(c, ret.err.name)

\* The name map vs and the index table ivs agree under the indexes idx: every
\* name whose descriptor has a setter finds that descriptor in the table at
\* the descriptor's index, and the descriptors of two names have two indexes.
Consistent(vs, ivs, idx) ==
    /\ \A n \in Names :
          (vs[n] # 0 /\ Indexer(vs[n])) =>
              /\ idx[vs[n]] < Len(ivs)
              /\ ivs[idx[vs[n]] + 1] = vs[n]
    /\ \A n1, n2 \in Names :
          (/\ n1 # n2
           /\ vs[n1] # 0 /\ Indexer(vs[n1])
           /\ vs[n2] # 0 /\ Indexer(vs[n2])) => idx[vs[n1]] # idx[vs[n2]]

\* C37: name map and index table stay consistent: in every state reachable
\* by Register and Override, and in the state each further Register or
\* Override of any variable leaves, for every name whose current descriptor
\* has a setter the index table entry at that descriptor's index is exactly
\* that descriptor, and two distinct names never have descriptors with the
\* same index.
C37_NameMapMatchesIndexTable ==
    /\ Consistent(variables, indexedVariables, index)
    /\ \A d \in DescIds :
          /\ Consistent(Register(d).variables, Register(d).indexedVariables,
                        Register(d).index)
          /\ Consistent(Override(d).variables, Override(d).indexedVariables,
                        Override(d).index)

\* Reached: two names hold variables with setters, and Override has just put
\* a new variable in the place of one of them, at the old variable's index.
C37_Witness ==
    /\ ret.op = "Override" /\ ret.err = NoErr /\ ret.old # 0
    /\ Indexer(ret.old)
    /\ variables[Descs[ret.old].name] # ret.old
    /\ Indexer(variables[Descs[ret.old].name])
    /\ index[variables[Descs[ret.old].name]] = index[ret.old]
    /\ \E n \in Names :
          /\ n # Descs[ret.old].name
          /\ variables[n] # 0 /\ Indexer(variables[n])
    /\ Len(indexedVariables) = 2

\* The slot of context c a reference with index idx goes to exists and its
\* index is one of the index table.
Dispatches(c, idx) ==
    /\ c # NilCtx /\ KeyVariables(c) # 0
    /\ idx < Len(SlotsOf(c)) /\ idx < Len(indexedVariables)

\* C38: Get and Set by direct reference dispatch through the index table:
\* for an indexed variable d they go to the slot of d's index and run the
\* getter (on a slot that is not valid) or the setter of the descriptor the
\* index table holds at that index, whatever d's own are; so right after
\* Override has reused an index, Get and Set through the old descriptor and
\* through the new descriptor have identical results and effects on every
\* context.
C38_DispatchThroughIndexTable ==
    /\ \A d \in DescIds : \A c \in CtxIds :
          (Indexer(d) /\ Dispatches(c, index[d])) =>
            LET t == indexedVariables[index[d] + 1]
                g == getByVariable(arrays, value, c, d)
            IN
            /\ g.cell = <<KeyVariables(c), index[d]>>
            /\ ~SlotsOf(c)[index[d] + 1].Valid =>
                  /\ g.res = getterGet(t, c, value).res
                  /\ g.err = getterGet(t, c, value).err
                  /\ g.calls = getterGet(t, c, value).calls
            /\ \A x \in Values :
                  /\ setByVariable(arrays, value, c, d, x).cell =
                        <<KeyVariables(c), index[d]>>
                  /\ setByVariable(arrays, value, c, d, x).setter = Descs[t].setter
                  /\ setByVariable(arrays, value, c, d, x) =
                        setterSet([arrays EXCEPT
                                     ![KeyVariables(c)][index[d] + 1].Valid = FALSE],
                                  value, c, KeyVariables(c), index[d], t, x)
    /\ (ret.op = "Override" /\ ret.old # 0) =>
          LET v1 == ret.old
              v2 == variables[Descs[v1].name]
          IN
          (Indexer(v1) /\ Indexer(v2)) =>
            \A c \in CtxIds :
                /\ getByVariable(arrays, value, c, v1) =
                      getByVariable(arrays, value, c, v2)
                /\ \A x \in Values :
                      setByVariable(arrays, value, c, v1, x) =
                          setByVariable(arrays, value, c, v2, x)

\* Reached: Override has just put a variable in the place of another one of
\* the same name whose getter answers differently, and a context holds the
\* slot of their index, not valid, so that a Get through either reference
\* runs a getter.
C38_Witness ==
    /\ ret.op = "Override" /\ ret.err = NoErr /\ ret.old # 0
    /\ LET v1 == ret.old
           v2 == variables[Descs[ret.old].name]
       IN
       /\ v1 # v2 /\ Indexer(v1) /\ Indexer(v2)
       /\ \E c \in CtxIds :
             /\ Dispatches(c, index[v1])
             /\ ~SlotsOf(c)[index[v1] + 1].Valid
             /\ getterGet(v1, c, value).err # getterGet(v2, c, value).err
             /\ getByVariable(arrays, value, c, v1).err = getterGet(v2, c, value).err

\* The variable names RegisterProtocolResource stores for protocol p.
OwnNames(p) == {VarName(p, n) : n \in Backings}

\* C39 as stated: protocol-resource keys do not collide: two distinct
\* (protocol, resource-kind) pairs always occupy distinct entries of the
\* side table, so the entry a pair finds is one registered for that pair's
\* protocol, RegisterProtocolResource of a pair is rejected as already
\* existing only when that pair has an entry of its own, and a lookup for a
\* pair resolves to a variable of that pair's protocol; re-registering the
\* same pair fails and keeps the first mapping.
C39_KeysDoNotCollide ==
    /\ \A p \in KeyProtocols : \A k \in KeyKinds : \A n \in Backings :
          /\ convert(p, k) \in DOMAIN protocolVar =>
                protocolVar[convert(p, k)] \in OwnNames(p)
          /\ RegisterProtocolResource(p, k, n).err # NoErr =>
                /\ convert(p, k) \in DOMAIN protocolVar
                /\ protocolVar[convert(p, k)] \in OwnNames(p)
                /\ RegisterProtocolResource(p, k, n).map = protocolVar
    /\ \A c \in CtxIds : \A k \in KeyKinds :
          (Resolve(c).err = NoErr /\ Forwarded(c, k) # Nil) =>
              Forwarded(c, k) \in OwnNames(Resolve(c).p)

\* C39 witness: a lookup has just returned the value of a variable, every
\* context that can look anything up has the protocol "pa", and the only
\* entry of the side table is the one registered for the pair ("p", "ak"),
\* the variable "p_a" under the key "pak": the lookup for ("pa", "k")
\* resolved to the other pair's variable, and RegisterProtocolResource of
\* ("pa", "k") is rejected as already existing.
C39_Witness ==
    /\ ret.op = "GetProtocolResource" /\ ret.err = NoErr
    /\ \A c \in 1..Len(ctxs) : Payload(c) = "pa"
    /\ DOMAIN protocolVar = {convert("p", "ak")}
    /\ protocolVar[convert("p", "ak")] = VarName("p", "a")
    /\ \A n \in Backings :
          RegisterProtocolResource("pa", "k", n).err =
              Err("ProtocolResourceExists", convert("pa", "k"))

\* C40 as stated: closing a buffer chain is safe under concurrency: for
\* every interleaving of Write and CloseWithError calls no Write sends on
\* the data channel after it has been closed, each channel is closed at most
\* once even when CloseWithError is called concurrently or repeatedly (no
\* call ends in the panic of a send on, or of a close of, a closed channel),
\* and once a CloseWithError has returned the error channel is closed, so
\* that every Write that starts then fails with io.EOF without enqueuing
\* data.
C40_CloseIsSafe ==
    /\ \A w \in Writers : wres[w].err # "panic"
    /\ \A k \in Closers : cres[k] # "panic"
    /\ (\E k \in Closers : cres[k] = "returned") => "errChan" \in closed

\* C40 witness: a Write that had passed its first select before the error
\* channel was closed took the mutex after CloseWithError had closed the data
\* channel and returned, and its send on the closed channel panicked.
C40_Witness ==
    /\ \E w \in Writers : wres[w] = Wrote(0, "panic") /\ wpc[w] = "idle"
    /\ \E k \in Closers : cres[k] = "returned"
    /\ closed = {"errChan", "bufferchain"}
    /\ \A k \in Closers : cres[k] # "panic"

====
